---- MODULE Spec2Model ----
(***************************************************************************)
(* Keyper envelope-encryption vault: SecureVault (the Vault core),         *)
(* VaultManager (lifecycle), VaultStorage (persisted WrappedDEK) and the   *)
(* key derivation of crypto.ts.                                            *)
(*                                                                         *)
(* Cryptography is symbolic: a key is the data it was made from, an        *)
(* AES-GCM ciphertext is the triple (key, iv, plaintext bytes), and it     *)
(* opens only under the same key and iv.  Time is counted in ticks.        *)
(***************************************************************************)
EXTENDS Integers, Sequences, FiniteSets, TLC

VARIABLES
    dek,                \* SecureVault.dek: Null or the resident CryptoKey
    wrappedDEK,         \* SecureVault.wrappedDEK: Null or a WrappedDEK
    autoLockTimeoutMs,  \* SecureVault.autoLockTimeoutMs
    autoLockTimer,      \* SecureVault.autoLockTimer: Null or [at |-> deadline]
    timers,             \* deadlines of the setTimeout callbacks still pending
    lastActivity,       \* SecureVault.lastActivity: Null or [time |-> t]
    listeners,          \* SecureVault.listeners: sequence of listener ids
    initialized,        \* VaultManager.initialized
    argon2Available,    \* crypto.ts: argon2Available && argon2Module
    storage,            \* vault_config row of the current user: Null or a row
    now,                \* the clock
    nextDek,            \* number of DEKs generated so far by generateKey
    blobs,              \* blobs returned by encrypt so far, with their plaintext
    erased,             \* the WrappedDEKs whose row resetVault has deleted
    inbox,              \* events each listener received during the last call
    logger,             \* how the audit logger answers its next calls
    console,            \* what unlock wrote to the console during the last call
    inflight,           \* encrypt and decrypt calls waiting on crypto.subtle
    credentials,        \* the rows of the credentials table
    last                \* the last call: [op, err, ret]

vars == <<dek, wrappedDEK, autoLockTimeoutMs, autoLockTimer, timers, lastActivity,
          listeners, initialized, argon2Available, storage, now, nextDek,
          blobs, erased, inbox, logger, console, inflight, credentials, last>>

\* ------------------------------------------------------------------ bounds

MaxTime == 3
MaxDek == 2
MaxBlobs == 1
MaxListeners == 1
MaxInflight == 1
MaxThrowing == 1
MaxSelfRemoving == 1

\* ------------------------------------------------- constants of the program

\* SecureVault.autoLockTimeoutMs = 15 * 60 * 1000, in ticks of 7.5 minutes
DefaultTimeout == 2
\* masterPassphrase.length < 8
MinPassphraseLength == 8

Null == [null |-> TRUE]

NoError == "none"

\* ------------------------------------------------------------ input domains

\* A passphrase is its identity and its length.
\* What unlock reads of the string besides: its first and last character,
\* whether it has a space, whether it has one of !@#$%^&*(),.?":{}|<>.
GoodPass == [id |-> "correct-horse", len |-> 21, firstChar |-> "c",
             lastChar |-> "y", hasSpaces |-> FALSE, hasSpecialChars |-> FALSE]
OtherPass == [id |-> "other-phrase", len |-> 12, firstChar |-> "o",
              lastChar |-> "e", hasSpaces |-> FALSE, hasSpecialChars |-> FALSE]
ShortPass == [id |-> "short", len |-> 5, firstChar |-> "s",
              lastChar |-> "t", hasSpaces |-> FALSE, hasSpecialChars |-> FALSE]
Passphrases == {GoodPass, OtherPass, ShortPass}
\* The empty string: charAt(0) of it is the empty string.
EmptyPass == [id |-> "", len |-> 0, firstChar |-> "", lastChar |-> "",
              hasSpaces |-> FALSE, hasSpecialChars |-> FALSE]

\* Random bytes: the values crypto.getRandomValues may return.
Salts == { <<"s1">> }
IVs == { <<"n1">> }

ListenerIds == {"L1"}
\* Listeners that throw when they are called.
ThrowingListenerIds == {"LX"}
\* Listeners that call removeEventListener on themselves when they are
\* called.
SelfRemovingListenerIds == {"LR"}
AllListeners == ListenerIds \cup ThrowingListenerIds \cup SelfRemovingListenerIds

\* The audit logger works, throws at its next call only, or throws always.
Loggers == {"ok", "throwsOnce", "throws"}

\* Delays handed to setAutoLockTimeout: negative, zero, and positive ones
\* within the range setTimeout keeps (below 2^31 ms).
TimeoutChoices == {0 - 1, 0, 1, DefaultTimeout}

\* JavaScript strings are sequences of UTF-16 code units: "a" an ASCII
\* letter, "BOM" U+FEFF, "HI"/"LO" a high/low surrogate, "FFFD" U+FFFD.
Plaintexts == { <<>>, <<"a">>, <<"BOM", "a">> }

\* What the environment does during one derivation: whether the dynamic
\* import of argon2-browser succeeds, how argon2.hash ends, whether PBKDF2
\* succeeds.
EnvArgon2 == [importOk |-> TRUE, hash |-> "ok", pbkdf2Ok |-> TRUE]
EnvNoArgon2 == [importOk |-> FALSE, hash |-> "ok", pbkdf2Ok |-> TRUE]
EnvNoCrypto == [importOk |-> FALSE, hash |-> "error", pbkdf2Ok |-> FALSE]
\* argon2.hash throws an error other than "not supported" and PBKDF2 fails too.
EnvHashFails == [importOk |-> TRUE, hash |-> "error", pbkdf2Ok |-> FALSE]
Envs == {EnvArgon2, EnvNoArgon2, EnvNoCrypto, EnvHashFails}
\* argon2.hash throws an Error whose message includes "not supported".
EnvUnsupported == [importOk |-> TRUE, hash |-> "unsupported", pbkdf2Ok |-> TRUE]

\* Whether the storage requests of one call get through: net[1], net[2] the
\* two reads of VaultManager.initialize (an outage spans both), net[3] the
\* request the call makes after it.
Nets == {net \in [1..3 -> BOOLEAN] : net[1] = net[2]}
\* For the calls that make no request after initialize.
ReadNets == {net \in Nets : net[3]}

\* ---------------------------------------------------------------- encoding

\* TextEncoder.encode: the string as Unicode scalar values (a surrogate pair
\* is one scalar value, an unpaired surrogate becomes U+FFFD), each as its
\* UTF-8 bytes.
RECURSIVE utf8Encode(_)
utf8Encode(str) ==
    IF str = <<>> THEN <<>>
    ELSE LET c == Head(str) IN
         IF c = "a" THEN <<97>> \o utf8Encode(Tail(str))
         ELSE IF c = "BOM" THEN <<239, 187, 191>> \o utf8Encode(Tail(str))
         ELSE IF c = "HI" /\ Len(str) >= 2 /\ str[2] = "LO"
              THEN <<240, 144, 128, 128>> \o utf8Encode(Tail(Tail(str)))
         ELSE <<239, 191, 189>> \o utf8Encode(Tail(str))

RECURSIVE utf8DecodeRaw(_)
utf8DecodeRaw(bytes) ==
    IF bytes = <<>> THEN <<>>
    ELSE IF bytes[1] = 97 THEN <<"a">> \o utf8DecodeRaw(Tail(bytes))
    ELSE IF Len(bytes) >= 3 /\ SubSeq(bytes, 1, 3) = <<239, 187, 191>>
         THEN <<"BOM">> \o utf8DecodeRaw(SubSeq(bytes, 4, Len(bytes)))
    ELSE IF Len(bytes) >= 4 /\ SubSeq(bytes, 1, 4) = <<240, 144, 128, 128>>
         THEN <<"HI", "LO">> \o utf8DecodeRaw(SubSeq(bytes, 5, Len(bytes)))
    ELSE IF Len(bytes) >= 3 /\ SubSeq(bytes, 1, 3) = <<239, 191, 189>>
         THEN <<"FFFD">> \o utf8DecodeRaw(SubSeq(bytes, 4, Len(bytes)))
    ELSE <<"FFFD">> \o utf8DecodeRaw(Tail(bytes))

\* new TextDecoder().decode: UTF-8 decoding with ignoreBOM = false, which
\* drops a leading byte order mark.
utf8Decode(bytes) ==
    LET s == utf8DecodeRaw(bytes)
    IN  IF s # <<>> /\ s[1] = "BOM" THEN Tail(s) ELSE s

\* btoa over the bytes, and atob back: a base64 text is the bytes it encodes.
bufToBase64(buf) == [b64 |-> buf]
base64ToBuf(text) == text.b64

\* A non-empty string that is not base64: atob throws InvalidCharacterError.
NotBase64 == [text |-> "!!"]
isBase64(text) == "b64" \in DOMAIN text

\* ------------------------------------------------------------------ crypto

Ok(v) == [ok |-> TRUE, val |-> v]
Err(e) == [ok |-> FALSE, err |-> e]
\* new CryptoError(type, message, originalError)
ErrCause(e, cause) == [ok |-> FALSE, err |-> e, cause |-> cause]

\* What crypto.subtle throws when an operation fails.
OperationError == "OperationError"

\* crypto.subtle.encrypt / decrypt with AES-GCM: the tag authenticates the
\* key, the iv and every byte of the ciphertext.
aesGcmEncrypt(key, iv, data) == [key |-> key, iv |-> iv, data |-> data]
\* A ciphertext with a byte changed.
altered(ct) == [altered |-> ct]
aesGcmDecrypt(key, iv, ct) ==
    IF "key" \in DOMAIN ct /\ ct.key = key /\ ct.iv = iv
    THEN Ok(ct.data) ELSE Err(OperationError)

\* crypto.subtle.importKey("raw", ..., AES-GCM) accepts 16, 24 or 32 bytes:
\* the bytes generateKey produced, not bytes of another length.
importable(bytes) == "gen" \in DOMAIN bytes

\* PBKDF2 whose output does not depend on the passphrase.
deriveKeyPBKDF2IgnoresPassphrase(passphrase, salt, env) ==
    IF env.pbkdf2Ok
    THEN Ok([kdf |-> "pbkdf2", pass |-> "", salt |-> salt])
    ELSE Err("KEY_DERIVATION_FAILED")

deriveKeyPBKDF2(passphrase, salt, env) ==
    IF env.pbkdf2Ok
    THEN Ok([kdf |-> "pbkdf2", pass |-> passphrase.id, salt |-> salt])
    ELSE ErrCause("KEY_DERIVATION_FAILED", OperationError)

\* Returns [res, avail]: the key or the error, and argon2Available afterwards.
deriveKeyArgon2(passphrase, salt, avail, env) ==
    LET loaded == avail \/ env.importOk
        fallback == deriveKeyPBKDF2(passphrase, salt, env)
    IN  IF ~loaded
        THEN \* import failed: PBKDF2; its error is rethrown by the outer catch
             [res |-> IF fallback.ok THEN fallback
                      ELSE ErrCause("KEY_DERIVATION_FAILED", fallback),
              avail |-> FALSE]
        ELSE IF env.hash = "ok"
        THEN [res |-> Ok([kdf |-> "argon2id", pass |-> passphrase.id,
                          salt |-> salt]),
              avail |-> TRUE]
        ELSE IF env.hash = "unsupported"
        THEN [res |-> fallback, avail |-> TRUE]
        ELSE [res |-> ErrCause("KEY_DERIVATION_FAILED", "argon2 hash error"),
              avail |-> TRUE]

\* deriveKey that hands out a fixed key when both derivations fail.
deriveKeyPlaceholder(passphrase, salt, avail, env) ==
    LET a == deriveKeyArgon2(passphrase, salt, avail, env)
        p == deriveKeyPBKDF2(passphrase, salt, env)
    IN  IF a.res.ok
        THEN [res |-> Ok([key |-> a.res.val,
                          kdf |-> IF a.avail THEN "argon2id" ELSE "pbkdf2"]),
              avail |-> a.avail]
        ELSE IF p.ok
        THEN [res |-> Ok([key |-> p.val, kdf |-> "pbkdf2"]), avail |-> a.avail]
        ELSE [res |-> Ok([key |-> [kdf |-> "pbkdf2", pass |-> "", salt |-> salt],
                          kdf |-> "pbkdf2"]),
              avail |-> a.avail]

\* Returns [res, avail] with res.val = [key, kdf].
deriveKey(passphrase, salt, avail, env) ==
    LET a == deriveKeyArgon2(passphrase, salt, avail, env)
        p == deriveKeyPBKDF2(passphrase, salt, env)
    IN  IF a.res.ok
        THEN [res |-> Ok([key |-> a.res.val,
                          kdf |-> IF a.avail THEN "argon2id" ELSE "pbkdf2"]),
              avail |-> a.avail]
        ELSE IF p.ok
        THEN [res |-> Ok([key |-> p.val, kdf |-> "pbkdf2"]), avail |-> a.avail]
        ELSE [res |-> p, avail |-> a.avail]

\* The outcome of a call of crypto.ts: argon2Available afterwards, the error
\* thrown (NoError when it returns) and the value returned.
Answer(avail, err, ret) == [avail |-> avail, err |-> err, ret |-> ret]

\* rnd = [salt, iv]: what randomBytes returns. Every error, a CryptoError
\* too, leaves as ENCRYPTION_FAILED.
encryptString(passphrase, plaintext, rnd, avail, env) ==
    LET d == deriveKey(passphrase, rnd.salt, avail, env)
    IN  IF ~d.res.ok
        THEN Answer(d.avail, "ENCRYPTION_FAILED", Null)
        ELSE Answer(d.avail, NoError,
                    [v |-> 1, kdf |-> d.res.val.kdf,
                     salt |-> bufToBase64(rnd.salt),
                     iv |-> bufToBase64(rnd.iv),
                     ct |-> bufToBase64(aesGcmEncrypt(d.res.val.key, rnd.iv,
                                                      utf8Encode(plaintext)))])

\* A CryptoError is rethrown, an OperationError becomes INVALID_PASSPHRASE,
\* anything else DECRYPTION_FAILED.
decryptString(passphrase, blob, avail, env) ==
    IF blob.v # 1
    THEN Answer(avail, "UNSUPPORTED_VERSION", Null)
    ELSE IF ~isBase64(blob.salt) \/ ~isBase64(blob.iv) \/ ~isBase64(blob.ct)
    THEN Answer(avail, "DECRYPTION_FAILED", Null)
    ELSE LET d == deriveKey(passphrase, base64ToBuf(blob.salt), avail, env)
         IN  IF ~d.res.ok
             THEN Answer(d.avail, d.res.err, Null)
             ELSE LET plaintextBuffer ==
                          aesGcmDecrypt(d.res.val.key, base64ToBuf(blob.iv),
                                        base64ToBuf(blob.ct))
                  IN  IF ~plaintextBuffer.ok
                      THEN Answer(d.avail, "INVALID_PASSPHRASE", Null)
                      ELSE Answer(d.avail, NoError,
                                  [text |-> utf8Decode(plaintextBuffer.val)])

validateSecretBlob(blob) ==
    /\ DOMAIN blob = {"v", "kdf", "salt", "iv", "ct"}
    /\ blob.v = 1
    /\ blob.kdf \in {"argon2id", "pbkdf2"}

\* ------------------------------------------------------------- SecureVault

\* The SecureVault object with what it reports to: its fields, the
\* listeners' inboxes, the audit logger and the console.
Core == [dek |-> dek, wrappedDEK |-> wrappedDEK,
         autoLockTimeoutMs |-> autoLockTimeoutMs,
         autoLockTimer |-> autoLockTimer, timers |-> timers, lastActivity |-> lastActivity,
         listeners |-> listeners,
         inbox |-> [l \in AllListeners |-> <<>>],
         logger |-> logger, console |-> <<>>]

\* The outcome of a call: the object afterwards, argon2Available afterwards,
\* the error thrown (NoError when it returns) and the value returned.
Outcome(c, avail, err, ret) == [c |-> c, avail |-> avail, err |-> err, ret |-> ret]

\* Returned values: a boolean, a string; a blob and a WrappedDEK are records.
Bool(b) == [bool |-> b]
Text(str) == [text |-> str]

\* securityLogger.logEvent has no try/catch: what goes wrong inside it
\* leaves it as an exception. A logger that "throwsOnce" works again after
\* the call that threw.
LoggerError == "LoggerError"
logEventThrows(c) == c.logger # "ok"
logEvent(c) == [c EXCEPT !.logger = IF @ = "throwsOnce" THEN "ok" ELSE @]

\* catch (error) { log(false, ...); throw error; }
rethrowLogged(c, avail, err) ==
    Outcome(logEvent(c), avail,
            IF logEventThrows(c) THEN LoggerError ELSE err, Null)

\* console.log(...) inside unlock.
consoleLog(c, line) == [c EXCEPT !.console = Append(@, line)]

addEventListener(c, l) == [c EXCEPT !.listeners = Append(@, l)]

removeEventListener(c, l) ==
    IF \E i \in 1..Len(c.listeners) : c.listeners[i] = l
    THEN LET index == CHOOSE i \in 1..Len(c.listeners) :
                          /\ c.listeners[i] = l
                          /\ \A j \in 1..(i - 1) : c.listeners[j] # l
         IN  [c EXCEPT !.listeners = SubSeq(@, 1, index - 1)
                                     \o SubSeq(@, index + 1, Len(@))]
    ELSE c

\* this.listeners.forEach(...): the indices below the length the array had
\* when the loop began are visited in order, each read from the array as it
\* is at that moment; an index the array no longer has is passed over. Each
\* call sits in its own try/catch, so a listener that throws has received
\* the event and the loop goes on.
RECURSIVE forEach(_, _, _, _)
forEach(c, k, len, event) ==
    IF k > len THEN c
    ELSE IF k > Len(c.listeners) THEN forEach(c, k + 1, len, event)
    ELSE LET l == c.listeners[k]
             received == [c EXCEPT !.inbox[l] = Append(@, event)]
             after == IF l \in SelfRemovingListenerIds
                      THEN removeEventListener(received, l) ELSE received
         IN  forEach(after, k + 1, len, event)

\* A forEach without the try/catch: the first listener that throws ends it.
RECURSIVE deliverUnguarded(_, _, _)
deliverUnguarded(box, ls, event) ==
    IF ls = <<>> THEN box
    ELSE LET received == [box EXCEPT ![Head(ls)] = Append(@, event)]
         IN  IF Head(ls) \in ThrowingListenerIds THEN received
             ELSE deliverUnguarded(received, Tail(ls), event)

\* notifyListeners that lets a listener's exception end the loop.
notifyListenersUnguarded(c, event) ==
    [c EXCEPT !.inbox = deliverUnguarded(c.inbox, c.listeners, event)]

notifyListeners(c, event) == forEach(c, 1, Len(c.listeners), event)

\* The sequence s without its k-th element.
RemoveAt(s, k) == [i \in 1..(Len(s) - 1) |-> IF i < k THEN s[i] ELSE s[i + 1]]

\* clearTimeout(handle): the callback armed for this deadline is taken off
\* the event loop; a handle whose callback has run already changes nothing.
clearTimeout(pending, handle) ==
    IF \E k \in DOMAIN pending : pending[k] = handle.at
    THEN RemoveAt(pending, CHOOSE k \in DOMAIN pending : pending[k] = handle.at)
    ELSE pending

clearAutoLockTimer(c) ==
    IF c.autoLockTimer # Null
    THEN [c EXCEPT !.timers = clearTimeout(@, c.autoLockTimer),
                   !.autoLockTimer = Null]
    ELSE c

\* resetAutoLockTimer that arms a timer without clearing the one before.
resetAutoLockTimerKeepsOld(c, t) ==
    IF c.autoLockTimeoutMs > 0
    THEN [c EXCEPT !.autoLockTimer = [at |-> t + c.autoLockTimeoutMs],
                   !.timers = Append(@, t + c.autoLockTimeoutMs)]
    ELSE c

resetAutoLockTimer(c, t) ==
    LET c1 == clearAutoLockTimer(c)
    IN  IF c1.autoLockTimeoutMs > 0
        THEN [c1 EXCEPT !.autoLockTimer = [at |-> t + c1.autoLockTimeoutMs],
                        !.timers = Append(@, t + c1.autoLockTimeoutMs)]
        ELSE c1

\* updateActivity that records the time and leaves the timer running.
updateActivityKeepsTimer(c, t) == [c EXCEPT !.lastActivity = [time |-> t]]

updateActivity(c, t) ==
    resetAutoLockTimer([c EXCEPT !.lastActivity = [time |-> t]], t)

initializeWithWrappedDEK(c, w) == [c EXCEPT !.wrappedDEK = w]

\* createNewVault with the length check after the key has been generated
\* and installed.
createNewVaultChecksLate(c, masterPassphrase, rnd, avail, env, t) ==
    LET c1 == resetAutoLockTimer([c EXCEPT !.dek = rnd.key,
                                           !.lastActivity = [time |-> t]], t)
    IN  Outcome(c1, avail, "INVALID_PASSPHRASE", Null)

\* rnd = [key, salt, iv]: what generateKey and getRandomValues return.
createNewVault(c, masterPassphrase, rnd, avail, env, t) ==
    IF masterPassphrase.len < MinPassphraseLength
    THEN rethrowLogged(c, avail, "INVALID_PASSPHRASE")
    ELSE LET d == deriveKey(masterPassphrase, rnd.salt, avail, env) IN
         IF ~d.res.ok
         THEN rethrowLogged(c, d.avail, d.res.err)
         ELSE LET wrappedDekBytes == aesGcmEncrypt(d.res.val.key, rnd.iv, rnd.key)
                  w == [v |-> 1, kdf |-> d.res.val.kdf,
                        salt |-> bufToBase64(rnd.salt),
                        iv |-> bufToBase64(rnd.iv),
                        ct |-> bufToBase64(wrappedDekBytes)]
                  c1 == [c EXCEPT !.wrappedDEK = w, !.dek = rnd.key,
                                  !.lastActivity = [time |-> t]]
                  c2 == resetAutoLockTimer(c1, t)
              IN  IF logEventThrows(c2)
                  THEN rethrowLogged(logEvent(c2), d.avail, LoggerError)
                  ELSE Outcome(notifyListeners(c2, "unlocked"), d.avail,
                               NoError, w)

\* The three console.log calls before the try: the second one writes the
\* passphrase's length, first and last character and two facts about
\* its characters.
unlockPreamble(c, masterPassphrase) ==
    LET c1 == consoleLog(c, [msg |-> "Starting vault unlock process..."])
        c2 == consoleLog(c1, [msg |-> "Wrapped DEK details:",
                              kdf |-> IF c.wrappedDEK = Null THEN "undefined"
                                      ELSE c.wrappedDEK.kdf])
    IN  consoleLog(c2, [msg |-> "Passphrase details:",
                        length |-> masterPassphrase.len,
                        firstChar |-> masterPassphrase.firstChar,
                        lastChar |-> masterPassphrase.lastChar,
                        hasSpaces |-> masterPassphrase.hasSpaces,
                        hasSpecialChars |-> masterPassphrase.hasSpecialChars])

\* The outer catch of unlock: a line on the console, the logger, rethrow.
unlockFailed(c, avail, err) ==
    rethrowLogged(consoleLog(c, [msg |-> "Unlock process failed:", error |-> err]),
                  avail, err)

\* unlock with the passphrase length checked before the WrappedDEK.
unlockChecksLengthFirst(c, masterPassphrase, avail, env, t) ==
    IF masterPassphrase.len < MinPassphraseLength
    THEN Outcome(c, avail, "INVALID_PASSPHRASE", Null)
    ELSE Outcome(c, avail, "VAULT_NOT_INITIALIZED", Null)

unlock(c, masterPassphrase, avail, env, t) ==
    LET c0 == unlockPreamble(c, masterPassphrase) IN
    IF c.wrappedDEK = Null
    THEN unlockFailed(consoleLog(c0, [msg |-> "No wrapped DEK found"]),
                      avail, "VAULT_NOT_INITIALIZED")
    ELSE IF masterPassphrase.len < MinPassphraseLength
    THEN unlockFailed(consoleLog(c0, [msg |-> "Passphrase too short:",
                                      length |-> masterPassphrase.len]),
                      avail, "INVALID_PASSPHRASE")
    ELSE IF ~isBase64(c.wrappedDEK.salt)
    THEN unlockFailed(consoleLog(c0, [msg |-> "Decoding base64 data..."]),
                      avail, "InvalidCharacterError")
    ELSE LET salt == base64ToBuf(c.wrappedDEK.salt)
             d == deriveKey(masterPassphrase, salt, avail, env)
             c1 == consoleLog(consoleLog(c0, [msg |-> "Decoding base64 data..."]),
                              [msg |-> "Deriving key from passphrase..."])
         IN  IF ~d.res.ok
             THEN unlockFailed(c1, d.avail, d.res.err)
             ELSE IF ~isBase64(c.wrappedDEK.iv) \/ ~isBase64(c.wrappedDEK.ct)
             THEN unlockFailed(consoleLog(c1, [msg |-> "Key derivation successful"]),
                               d.avail, "InvalidCharacterError")
             ELSE LET iv == base64ToBuf(c.wrappedDEK.iv)
                      wrappedDekBytes == base64ToBuf(c.wrappedDEK.ct)
                      dekBytes == aesGcmDecrypt(d.res.val.key, iv, wrappedDekBytes)
                      c2 == consoleLog(consoleLog(c1,
                                [msg |-> "Key derivation successful"]),
                                [msg |-> "Attempting AES decryption..."])
                      \* the inner catch: whatever was thrown inside the
                      \* inner try leaves as INVALID_PASSPHRASE
                      wrongPassphrase(cc) ==
                          unlockFailed(consoleLog(cc, [msg |-> "AES decryption failed:"]),
                                       d.avail, "INVALID_PASSPHRASE")
                  IN  IF ~dekBytes.ok \/ ~importable(dekBytes.val)
                      THEN wrongPassphrase(c2)
                      ELSE LET c3 == [c2 EXCEPT !.dek = dekBytes.val,
                                                !.lastActivity = [time |-> t]]
                               c4 == consoleLog(resetAutoLockTimer(c3, t),
                                                [msg |-> "DEK imported successfully"])
                           IN  IF logEventThrows(c4)
                               THEN wrongPassphrase(logEvent(c4))
                               ELSE Outcome(
                                      consoleLog(notifyListeners(c4, "unlocked"),
                                                 [msg |-> "Vault unlocked successfully!"]),
                                      d.avail, NoError, Null)

isUnlocked(c) == c.dek # Null

\* lock that leaves the pending timer running.
lockKeepsTimer(c) ==
    IF c.dek # Null
    THEN notifyListeners([c EXCEPT !.dek = Null, !.lastActivity = Null], "locked")
    ELSE c

\* lock that notifies whether or not a DEK was resident.
lockAlwaysNotifies(c) ==
    notifyListeners(clearAutoLockTimer([c EXCEPT !.dek = Null,
                                                 !.lastActivity = Null]), "locked")

\* lock() throws when the logger does, having cleared the DEK and the timer.
lockThrows(c) == c.dek # Null /\ logEventThrows(c)

lock(c) ==
    IF c.dek # Null
    THEN LET c1 == clearAutoLockTimer([c EXCEPT !.dek = Null])
             c2 == [c1 EXCEPT !.lastActivity = Null]
         IN  IF logEventThrows(c2) THEN logEvent(c2)
             ELSE notifyListeners(c2, "locked")
    ELSE c

\* encrypt with the activity refreshed before the lock check.
encryptRefreshesFirst(c, plaintext, iv, avail, t) ==
    LET c1 == updateActivity(c, t)
    IN  IF c.dek = Null
        THEN Outcome(c1, avail, "VAULT_LOCKED", Null)
        ELSE Outcome(c1, avail, NoError,
                     [v |-> 1, kdf |-> c1.wrappedDEK.kdf,
                      salt |-> c1.wrappedDEK.salt, iv |-> bufToBase64(iv),
                      ct |-> bufToBase64(aesGcmEncrypt(c1.dek, iv,
                                                       utf8Encode(plaintext)))])

\* encrypt that seals under the nonce of the WrappedDEK, not the one drawn.
encryptStartReusesIv(c, plaintext, iv, avail, t) ==
    IF c.dek = Null
    THEN Outcome(c, avail, "VAULT_LOCKED", Null)
    ELSE LET c1 == updateActivity(c, t)
         IN  Outcome(c1, avail, NoError,
                     [op |-> "encrypt", key |-> c1.dek,
                      iv |-> base64ToBuf(c1.wrappedDEK.iv),
                      data |-> utf8Encode(plaintext)])

\* encrypt up to its await: the lock check, updateActivity, the 12 random
\* bytes iv, and the arguments of crypto.subtle.encrypt, this.dek among
\* them, evaluated. Returns the call now in flight.
encryptStart(c, plaintext, iv, avail, t) ==
    IF c.dek = Null
    THEN Outcome(c, avail, "VAULT_LOCKED", Null)
    ELSE LET c1 == updateActivity(c, t)
         IN  Outcome(c1, avail, NoError,
                     [op |-> "encrypt", key |-> c1.dek, iv |-> iv,
                      data |-> utf8Encode(plaintext)])

\* A continuation that reads this.dek again when crypto.subtle answers.
encryptResumeReadsDek(c, call, avail) ==
    IF c.dek = Null
    THEN Outcome(c, avail, "VAULT_LOCKED", Null)
    ELSE Outcome(c, avail, NoError,
                 [v |-> 1, kdf |-> "pbkdf2", salt |-> bufToBase64(<<>>),
                  iv |-> bufToBase64(call.iv),
                  ct |-> bufToBase64(aesGcmEncrypt(c.dek, call.iv, call.data))])

\* encrypt from the moment crypto.subtle.encrypt answers: the logger, then
\* the blob, its kdf and salt read from this.wrappedDEK at that moment.
encryptResume(c, call, avail) ==
    LET ciphertext == aesGcmEncrypt(call.key, call.iv, call.data)
    IN  IF logEventThrows(c)
        THEN Outcome(logEvent(logEvent(c)), avail, LoggerError, Null)
        ELSE Outcome(c, avail, NoError,
                     [v |-> 1,
                      kdf |-> IF c.wrappedDEK # Null THEN c.wrappedDEK.kdf
                              ELSE "pbkdf2",
                      salt |-> IF c.wrappedDEK # Null THEN c.wrappedDEK.salt
                               ELSE bufToBase64(<<>>),
                      iv |-> bufToBase64(call.iv),
                      ct |-> bufToBase64(ciphertext)])

\* iv: the 12 random bytes drawn for this call. The call with nothing
\* running between its two halves.
encrypt(c, plaintext, iv, avail, t) ==
    LET started == encryptStart(c, plaintext, iv, avail, t)
    IN  IF started.err # NoError THEN started
        ELSE encryptResume(started.c, started.ret, avail)

\* decrypt up to its await: the lock check, updateActivity, the base64
\* decoding, and the arguments of crypto.subtle.decrypt evaluated.
decryptStart(c, blob, avail, t) ==
    IF c.dek = Null
    THEN Outcome(c, avail, "VAULT_LOCKED", Null)
    ELSE LET c1 == updateActivity(c, t)
         IN  IF ~isBase64(blob.iv) \/ ~isBase64(blob.ct)
             THEN rethrowLogged(c1, avail, "InvalidCharacterError")
             ELSE Outcome(c1, avail, NoError,
                          [op |-> "decrypt", key |-> c1.dek,
                           iv |-> base64ToBuf(blob.iv),
                           data |-> base64ToBuf(blob.ct)])

\* decrypt from the moment crypto.subtle.decrypt answers.
decryptResume(c, call, avail) ==
    LET plaintextBytes == aesGcmDecrypt(call.key, call.iv, call.data)
    IN  IF ~plaintextBytes.ok
        THEN rethrowLogged(c, avail, plaintextBytes.err)
        ELSE IF logEventThrows(c)
        THEN Outcome(logEvent(logEvent(c)), avail, LoggerError, Null)
        ELSE Outcome(c, avail, NoError, Text(utf8Decode(plaintextBytes.val)))

decrypt(c, blob, avail, t) ==
    LET started == decryptStart(c, blob, avail, t)
    IN  IF started.err # NoError THEN started
        ELSE decryptResume(started.c, started.ret, avail)

\* testPassphrase that keeps the DEK it unwrapped.
testPassphraseStoresKey(c, passphrase, avail, env) ==
    LET r == unlock(c, passphrase, avail, env, 0)
    IN  Outcome([c EXCEPT !.dek = r.c.dek], r.avail, NoError,
                Bool(r.err = NoError))

testPassphrase(c, passphrase, avail, env) ==
    IF c.wrappedDEK = Null
    THEN Outcome(c, avail, NoError, Bool(FALSE))
    ELSE IF ~isBase64(c.wrappedDEK.salt)
    THEN Outcome(c, avail, NoError, Bool(FALSE))
    ELSE LET d == deriveKey(passphrase, base64ToBuf(c.wrappedDEK.salt), avail, env)
         IN  IF ~d.res.ok
             THEN Outcome(c, d.avail, NoError, Bool(FALSE))
             ELSE IF ~isBase64(c.wrappedDEK.iv) \/ ~isBase64(c.wrappedDEK.ct)
             THEN Outcome(c, d.avail, NoError, Bool(FALSE))
             ELSE Outcome(c, d.avail, NoError,
                          Bool(aesGcmDecrypt(d.res.val.key,
                                             base64ToBuf(c.wrappedDEK.iv),
                                             base64ToBuf(c.wrappedDEK.ct)).ok))

\* setAutoLockTimeout that stores the delay and leaves the timer as it is.
setAutoLockTimeoutKeepsDeadline(c, timeoutMs, t) ==
    [c EXCEPT !.autoLockTimeoutMs = timeoutMs]

setAutoLockTimeout(c, timeoutMs, t) ==
    LET c1 == [c EXCEPT !.autoLockTimeoutMs = timeoutMs]
    IN  IF isUnlocked(c1) THEN resetAutoLockTimer(c1, t) ELSE c1

\* The callback resetAutoLockTimer hands to setTimeout: when lock() throws,
\* the second notification is not reached.
autoLockCallback(c) ==
    IF lockThrows(c) THEN lock(c) ELSE notifyListeners(lock(c), "auto-locked")

getTimeUntilAutoLock(c, t) ==
    IF c.lastActivity = Null \/ c.autoLockTimeoutMs <= 0 THEN 0
    ELSE LET remaining == c.autoLockTimeoutMs - (t - c.lastActivity.time)
         IN  IF remaining > 0 THEN remaining ELSE 0

\* ------------------------------------------------------------ VaultStorage

IsValidWrappedDEK(w) ==
    /\ w # Null
    /\ DOMAIN w = {"v", "kdf", "salt", "iv", "ct"}
    /\ w.v = 1

\* netOk: the request reaches the database. Every failure, and "no row",
\* comes back as null.
getVaultConfig(store, netOk) ==
    IF ~netOk THEN Null
    ELSE IF store = Null THEN Null
    ELSE IF IsValidWrappedDEK(store.wrapped_dek) THEN store
    ELSE Null

isVaultInitialized(store, netOk) == getVaultConfig(store, netOk) # Null

\* [store, err]. The upsert names no conflict column, so it inserts a row
\* with a new id: with a row of this user_id present, UNIQUE(user_id) of
\* vault_config rejects it.
saveVaultConfig(store, netOk, w) ==
    IF ~netOk \/ store # Null
    THEN [store |-> store, err |-> "Failed to save vault configuration"]
    ELSE [store |-> [wrapped_dek |-> w], err |-> NoError]

deleteVaultConfig(store, netOk) ==
    IF ~netOk
    THEN [store |-> store, err |-> "Failed to delete vault configuration"]
    ELSE [store |-> Null, err |-> NoError]

\* ------------------------------------------------------------ VaultManager

\* The process: the SecureVault singleton, the VaultManager singleton, the
\* crypto module's flag and the database.
World == [c |-> Core, initialized |-> initialized,
          avail |-> argon2Available, store |-> storage]

Result(w, err, ret) == [w |-> w, err |-> err, ret |-> ret]

\* net[1], net[2]: whether the two reads of initialize get through.
initialize(w, net) ==
    IF w.initialized THEN w
    ELSE LET vaultInitialized == isVaultInitialized(w.store, net[1])
             config == getVaultConfig(w.store, net[2])
             c1 == IF vaultInitialized /\ config # Null
                   THEN initializeWithWrappedDEK(w.c, config.wrapped_dek)
                   ELSE w.c
         IN  [w EXCEPT !.c = c1, !.initialized = TRUE]

isFirstTimeUser(w, net) ==
    LET w1 == initialize(w, net)
        hasVaultConfig == isVaultInitialized(w1.store, net[3])
    IN  Result(w1, NoError, Bool(~hasVaultConfig))

createVault(w, masterPassphrase, rnd, env, net, t) ==
    LET w1 == initialize(w, net)
        r == createNewVault(w1.c, masterPassphrase, rnd, w1.avail, env, t)
        w2 == [w1 EXCEPT !.c = r.c, !.avail = r.avail]
        saved == saveVaultConfig(w2.store, net[3], r.ret)
    IN  IF r.err # NoError THEN Result(w2, r.err, Null)
        ELSE Result([w2 EXCEPT !.store = saved.store], saved.err, Null)

unlockVault(w, masterPassphrase, env, net, t) ==
    LET w1 == initialize(w, net)
        r == unlock(w1.c, masterPassphrase, w1.avail, env, t)
        w2 == [w1 EXCEPT !.c = r.c, !.avail = r.avail]
    IN  IF r.err = "INVALID_PASSPHRASE"
        THEN Result(w2, "Error: Invalid master passphrase. Please try again.", Null)
        ELSE IF r.err = "VAULT_NOT_INITIALIZED"
        THEN Result(w2, "Error: Vault not initialized. Please set up encryption first.", Null)
        ELSE Result(w2, r.err, Null)

managerTestPassphrase(w, passphrase, env, net) ==
    LET w1 == initialize(w, net)
        r == testPassphrase(w1.c, passphrase, w1.avail, env)
    IN  Result([w1 EXCEPT !.c = r.c, !.avail = r.avail], r.err, r.ret)

resetVault(w, net) ==
    LET w1 == [w EXCEPT !.c = lock(w.c)]
        deleted == deleteVaultConfig(w1.store, net[1])
    IN  IF lockThrows(w.c) THEN Result(w1, LoggerError, Null)
        ELSE IF deleted.err # NoError THEN Result(w1, deleted.err, Null)
        ELSE Result([w1 EXCEPT !.store = deleted.store, !.initialized = FALSE],
                    NoError, Null)

\* ----------------------------------------------------------------- actions

Call(op, arg, err, ret) == [op |-> op, arg |-> arg, err |-> err, ret |-> ret]

SetCore(c) ==
    /\ dek' = c.dek
    /\ wrappedDEK' = c.wrappedDEK
    /\ autoLockTimeoutMs' = c.autoLockTimeoutMs
    /\ autoLockTimer' = c.autoLockTimer
    /\ timers' = c.timers
    /\ lastActivity' = c.lastActivity
    /\ listeners' = c.listeners
    /\ inbox' = c.inbox
    /\ logger' = c.logger
    /\ console' = c.console

SetWorld(w) ==
    /\ SetCore(w.c)
    /\ initialized' = w.initialized
    /\ argon2Available' = w.avail
    /\ storage' = w.store

Init ==
    /\ dek = Null
    /\ wrappedDEK = Null
    /\ autoLockTimeoutMs = DefaultTimeout
    /\ autoLockTimer = Null
    /\ timers = <<>>
    /\ lastActivity = Null
    /\ listeners = <<>>
    /\ initialized = FALSE
    /\ argon2Available = FALSE
    /\ storage = Null
    /\ now = 0
    /\ nextDek = 0
    /\ blobs = {}
    /\ erased = {}
    /\ inbox = [l \in AllListeners |-> <<>>]
    /\ logger = "ok"
    /\ console = <<>>
    /\ inflight = {}
    /\ credentials = {}
    /\ last = Call("new", "", NoError, Null)

\* createNewVault reaches crypto.subtle.generateKey once the passphrase has
\* passed the length check.
generatesKey(p) == p.len >= MinPassphraseLength

\* The values generateKey and getRandomValues hand to a createNewVault call.
Random(salt, iv) == [key |-> [gen |-> nextDek + 1], salt |-> salt, iv |-> iv]

CallCreateNewVault(p, salt, iv, env) ==
    /\ nextDek < MaxDek
    /\ LET r == createNewVault(Core, p, Random(salt, iv), argon2Available, env, now)
       IN  /\ SetCore(r.c)
           /\ argon2Available' = r.avail
           /\ nextDek' = IF generatesKey(p) THEN nextDek + 1 ELSE nextDek
           /\ last' = Call("createNewVault", p.id, r.err, Null)
    /\ UNCHANGED <<credentials, inflight, initialized, storage, now, blobs, erased>>

CallUnlock(p, env) ==
    /\ LET r == unlock(Core, p, argon2Available, env, now)
       IN  /\ SetCore(r.c)
           /\ argon2Available' = r.avail
           /\ last' = Call("unlock", p.id, r.err, Null)
    /\ UNCHANGED <<credentials, inflight, initialized, storage, now, nextDek, blobs, erased>>

CallInitializeWithWrappedDEK(w) ==
    /\ SetCore(initializeWithWrappedDEK(Core, w))
    /\ last' = Call("initializeWithWrappedDEK", "", NoError, Null)
    /\ UNCHANGED <<credentials, inflight, initialized, argon2Available, storage, now, nextDek, blobs, erased>>

CallLock ==
    /\ SetCore(lock(Core))
    /\ last' = Call("lock", "", IF lockThrows(Core) THEN LoggerError ELSE NoError,
                    Null)
    /\ UNCHANGED <<credentials, inflight, initialized, argon2Available, storage, now, nextDek, blobs, erased>>

\* A returned blob is remembered with the plaintext it seals and the
\* WrappedDEK of the vault that sealed it.
CallEncrypt(plaintext, iv) ==
    /\ LET r == encrypt(Core, plaintext, iv, argon2Available, now)
       IN  /\ SetCore(r.c)
           /\ last' = Call("encrypt", "", r.err, r.ret)
           /\ blobs' = IF r.err = NoError /\ Cardinality(blobs) < MaxBlobs
                       THEN blobs \cup {[blob |-> r.ret, plaintext |-> plaintext,
                                         record |-> wrappedDEK]}
                       ELSE blobs
    /\ UNCHANGED <<credentials, inflight, initialized, argon2Available, storage, now, nextDek, erased>>

\* A blob of another vault: sealed under a key this vault never holds.
ForeignBlob ==
    [v |-> 1, kdf |-> "pbkdf2", salt |-> bufToBase64(<<"s0">>),
     iv |-> bufToBase64(<<"n0">>),
     ct |-> bufToBase64(aesGcmEncrypt([gen |-> 0], <<"n0">>, utf8Encode(<<"a">>)))]

DecryptInputs == {b.blob : b \in blobs} \cup {ForeignBlob}

CallDecrypt(blob) ==
    /\ LET r == decrypt(Core, blob, argon2Available, now)
       IN  /\ SetCore(r.c)
           /\ last' = Call("decrypt", "", r.err, r.ret)
    /\ UNCHANGED <<credentials, inflight, initialized, argon2Available, storage, now, nextDek, blobs, erased>>

\* encrypt is called and runs up to its await. A call that passed the lock
\* check is in flight, remembered with its plaintext and the WrappedDEK of
\* the vault at that moment.
StartEncrypt(plaintext, iv) ==
    /\ Cardinality(inflight) < MaxInflight
    /\ LET r == encryptStart(Core, plaintext, iv, argon2Available, now)
       IN  /\ SetCore(r.c)
           /\ last' = Call("encryptStart", "", r.err, r.ret)
           /\ inflight' = IF r.err = NoError
                          THEN inflight \cup {[call |-> r.ret,
                                               plaintext |-> plaintext,
                                               record |-> wrappedDEK]}
                          ELSE inflight
    /\ UNCHANGED <<credentials, initialized, argon2Available, storage, now, nextDek, blobs, erased>>

StartDecrypt(blob) ==
    /\ Cardinality(inflight) < MaxInflight
    /\ LET r == decryptStart(Core, blob, argon2Available, now)
       IN  /\ SetCore(r.c)
           /\ last' = Call("decryptStart", "", r.err, r.ret)
           /\ inflight' = IF r.err = NoError
                          THEN inflight \cup {[call |-> r.ret, plaintext |-> <<>>,
                                               record |-> wrappedDEK]}
                          ELSE inflight
    /\ UNCHANGED <<credentials, initialized, argon2Available, storage, now, nextDek, blobs, erased>>

\* crypto.subtle answers the call k and its async function runs to the end.
ResumeCall(k) ==
    /\ k \in inflight
    /\ inflight' = inflight \ {k}
    /\ LET r == IF k.call.op = "encrypt"
                THEN encryptResume(Core, k.call, argon2Available)
                ELSE decryptResume(Core, k.call, argon2Available)
       IN  /\ SetCore(r.c)
           /\ last' = Call(IF k.call.op = "encrypt" THEN "encryptResume"
                           ELSE "decryptResume", "", r.err, r.ret)
           /\ blobs' = IF k.call.op = "encrypt" /\ r.err = NoError
                          /\ Cardinality(blobs) < MaxBlobs
                       THEN blobs \cup {[blob |-> r.ret, plaintext |-> k.plaintext,
                                         record |-> k.record]}
                       ELSE blobs
    /\ UNCHANGED <<credentials, initialized, argon2Available, storage, now, nextDek, erased>>

CallEncryptString(p, plaintext, salt, iv, env) ==
    /\ LET r == encryptString(p, plaintext, [salt |-> salt, iv |-> iv],
                              argon2Available, env)
       IN  /\ argon2Available' = r.avail
           /\ last' = Call("encryptString", p.id, r.err, r.ret)
           /\ blobs' = IF r.err = NoError /\ Cardinality(blobs) < MaxBlobs
                       THEN blobs \cup {[blob |-> r.ret, plaintext |-> plaintext,
                                         record |-> Null]}
                       ELSE blobs
    /\ console' = <<>>
    /\ UNCHANGED <<credentials, inflight, logger, dek, wrappedDEK, autoLockTimeoutMs, autoLockTimer, timers,
                   lastActivity, listeners, initialized, storage, now,
                   nextDek, erased, inbox>>

CallDecryptString(p, blob, env) ==
    /\ LET r == decryptString(p, blob, argon2Available, env)
       IN  /\ argon2Available' = r.avail
           /\ last' = Call("decryptString", p.id, r.err, r.ret)
    /\ console' = <<>>
    /\ UNCHANGED <<credentials, inflight, logger, dek, wrappedDEK, autoLockTimeoutMs, autoLockTimer, timers,
                   lastActivity, listeners, initialized, storage, now,
                   nextDek, blobs, erased, inbox>>

CallTestPassphrase(p, env) ==
    /\ LET r == testPassphrase(Core, p, argon2Available, env)
       IN  /\ SetCore(r.c)
           /\ argon2Available' = r.avail
           /\ last' = Call("testPassphrase", p.id, r.err, r.ret)
    /\ UNCHANGED <<credentials, inflight, initialized, storage, now, nextDek, blobs, erased>>

CallSetAutoLockTimeout(timeoutMs) ==
    /\ SetCore(setAutoLockTimeout(Core, timeoutMs, now))
    /\ last' = Call("setAutoLockTimeout", "", NoError, Null)
    /\ UNCHANGED <<credentials, inflight, initialized, argon2Available, storage, now, nextDek, blobs, erased>>

CallAddEventListener(l) ==
    /\ l \in ListenerIds
         => Len(SelectSeq(listeners, LAMBDA x : x \in ListenerIds)) < MaxListeners
    /\ l \in ThrowingListenerIds
         => Len(SelectSeq(listeners, LAMBDA x : x \in ThrowingListenerIds))
               < MaxThrowing
    /\ l \in SelfRemovingListenerIds
         => Len(SelectSeq(listeners, LAMBDA x : x \in SelfRemovingListenerIds))
               < MaxSelfRemoving
    /\ SetCore(addEventListener(Core, l))
    /\ last' = Call("addEventListener", "", NoError, Null)
    /\ UNCHANGED <<credentials, inflight, initialized, argon2Available, storage, now, nextDek, blobs, erased>>

CallRemoveEventListener(l) ==
    /\ SetCore(removeEventListener(Core, l))
    /\ last' = Call("removeEventListener", "", NoError, Null)
    /\ UNCHANGED <<credentials, inflight, initialized, argon2Available, storage, now, nextDek, blobs, erased>>

\* setTimeout runs the callback once the delay has passed.
AutoLockFires ==
    \E k \in DOMAIN timers :
    /\ now >= timers[k]
    /\ SetCore(autoLockCallback([Core EXCEPT !.timers = RemoveAt(@, k)]))
    /\ last' = Call("autoLockTimer", "",
                    IF lockThrows(Core) THEN LoggerError ELSE NoError, Null)
    /\ UNCHANGED <<credentials, inflight, initialized, argon2Available, storage, now, nextDek, blobs, erased>>

Tick ==
    /\ now < MaxTime
    /\ now' = now + 1
    /\ inbox' = [l \in AllListeners |-> <<>>]
    /\ last' = Call("tick", "", NoError, Null)
    /\ console' = <<>>
    /\ UNCHANGED <<credentials, inflight, logger, dek, wrappedDEK, autoLockTimeoutMs, autoLockTimer, timers,
                   lastActivity, listeners, initialized, argon2Available,
                   storage, nextDek, blobs, erased>>

\* The audit logger starts or stops failing.
LoggerTurns(mode) ==
    /\ mode # logger
    /\ logger' = mode
    /\ inbox' = [l \in AllListeners |-> <<>>]
    /\ console' = <<>>
    /\ last' = Call("logger", mode, NoError, Null)
    /\ UNCHANGED <<credentials, dek, wrappedDEK, autoLockTimeoutMs, autoLockTimer, timers,
                   lastActivity, listeners, initialized, argon2Available,
                   storage, now, nextDek, blobs, erased, inflight>>

\* The module-level import('argon2-browser/...') resolves.
Argon2ModuleLoaded ==
    /\ ~argon2Available
    /\ argon2Available' = TRUE
    /\ inbox' = [l \in AllListeners |-> <<>>]
    /\ last' = Call("argon2Loaded", "", NoError, Null)
    /\ console' = <<>>
    /\ UNCHANGED <<credentials, inflight, logger, dek, wrappedDEK, autoLockTimeoutMs, autoLockTimer, timers,
                   lastActivity, listeners, initialized, storage, now,
                   nextDek, blobs, erased>>

ManagerInitialize(net) ==
    /\ SetWorld(initialize(World, net))
    /\ last' = Call("initialize", "", NoError, Null)
    /\ UNCHANGED <<credentials, inflight, now, nextDek, blobs, erased>>

ManagerIsFirstTimeUser(net) ==
    /\ LET r == isFirstTimeUser(World, net)
       IN  /\ SetWorld(r.w)
           /\ last' = Call("isFirstTimeUser", "", r.err, r.ret)
    /\ UNCHANGED <<credentials, inflight, now, nextDek, blobs, erased>>

ManagerCreateVault(p, salt, iv, env, net) ==
    /\ nextDek < MaxDek
    /\ LET r == createVault(World, p, Random(salt, iv), env, net, now)
       IN  /\ SetWorld(r.w)
           /\ nextDek' = IF generatesKey(p) THEN nextDek + 1 ELSE nextDek
           /\ last' = Call("createVault", p.id, r.err, Null)
    /\ UNCHANGED <<credentials, inflight, now, blobs, erased>>

ManagerUnlockVault(p, env, net) ==
    /\ LET r == unlockVault(World, p, env, net, now)
       IN  /\ SetWorld(r.w)
           /\ last' = Call("unlockVault", p.id, r.err, Null)
    /\ UNCHANGED <<credentials, inflight, now, nextDek, blobs, erased>>

ManagerTestPassphrase(p, env, net) ==
    /\ LET r == managerTestPassphrase(World, p, env, net)
       IN  /\ SetWorld(r.w)
           /\ last' = Call("managerTestPassphrase", p.id, r.err, r.ret)
    /\ UNCHANGED <<credentials, inflight, now, nextDek, blobs, erased>>

ManagerResetVault(net) ==
    /\ LET r == resetVault(World, net)
       IN  /\ SetWorld(r.w)
           /\ last' = Call("resetVault", "", r.err, Null)
           /\ erased' = IF r.err = NoError /\ storage # Null
                        THEN erased \cup {storage.wrapped_dek} ELSE erased
    /\ UNCHANGED <<credentials, inflight, now, nextDek, blobs>>

\* The page is loaded again: new singletons, the database keeps its rows.
Reload ==
    /\ dek' = Null
    /\ wrappedDEK' = Null
    /\ autoLockTimeoutMs' = DefaultTimeout
    /\ autoLockTimer' = Null
    /\ timers' = <<>>
    /\ lastActivity' = Null
    /\ listeners' = <<>>
    /\ initialized' = FALSE
    /\ argon2Available' = FALSE
    /\ inbox' = [l \in AllListeners |-> <<>>]
    /\ last' = Call("new", "", NoError, Null)
    /\ console' = <<>>
    /\ inflight' = {}
    /\ UNCHANGED <<credentials, logger, storage, now, nextDek, blobs, erased>>

\* The WrappedDEK an earlier session's createNewVault(GoodPass) left in the
\* vault_config row.
StoredRecord ==
    createNewVault(Core, GoodPass,
                   [key |-> [gen |-> 0 - 1], salt |-> <<"s1">>, iv |-> <<"n1">>],
                   TRUE, EnvArgon2, 0).ret

\* Rows written by something other than this createNewVault: a DEK wrapped
\* under a 5-character passphrase, and wrapped bytes of a length importKey
\* refuses.
ShortPassRecord ==
    [StoredRecord EXCEPT !.ct = bufToBase64(aesGcmEncrypt(
        [kdf |-> "argon2id", pass |-> ShortPass.id, salt |-> <<"s1">>],
        <<"n1">>, [gen |-> 0 - 1]))]
UnimportableRecord ==
    [StoredRecord EXCEPT !.ct = bufToBase64(aesGcmEncrypt(
        [kdf |-> "argon2id", pass |-> GoodPass.id, salt |-> <<"s1">>],
        <<"n1">>, [raw |-> "15 bytes"]))]

\* The base64 text of other bytes than those of text.
otherBytes(text) ==
    bufToBase64(IF isBase64(text) THEN Append(base64ToBuf(text), "x")
                ELSE <<"x">>)

\* A record or blob with one of salt, iv, ct changed to other bytes.
Tampered(b) ==
    { [b EXCEPT !.salt = otherBytes(b.salt)],
      [b EXCEPT !.iv = otherBytes(b.iv)],
      [b EXCEPT !.ct = bufToBase64(altered(base64ToBuf(b.ct)))] }

\* A record or blob with a field that is not base64 text.
Malformed(b) ==
    { [b EXCEPT !.salt = NotBase64], [b EXCEPT !.iv = NotBase64],
      [b EXCEPT !.ct = NotBase64] }

\* A blob with another version number.
OtherVersion(b) == [b EXCEPT !.v = 2]

\* What getVaultConfig may hand to initializeWithWrappedDEK: it checks v = 1
\* and that the four fields are non-empty, nothing else.
LoadableRecords ==
    {StoredRecord, ShortPassRecord, UnimportableRecord}
        \cup Tampered(StoredRecord) \cup Malformed(StoredRecord)

\* What a caller may hand to decrypt: the blobs encrypt returned, as they
\* are or changed.
BlobInputs ==
    UNION { {b.blob, OtherVersion(b.blob)} \cup Tampered(b.blob)
                \cup Malformed(b.blob) : b \in blobs }

RecordEnvs == {EnvArgon2, EnvNoCrypto, EnvHashFails}

\* The Vault core on records loaded from storage, sound or damaged, and on
\* blobs handed back changed; the clock stopped.
NextRecords ==
    \/ \E w \in LoadableRecords : CallInitializeWithWrappedDEK(w)
    \/ \E salt \in Salts, iv \in IVs, env \in RecordEnvs :
           CallCreateNewVault(GoodPass, salt, iv, env)
    \/ \E p \in Passphrases, env \in RecordEnvs : CallUnlock(p, env)
    \/ \E p \in Passphrases, env \in RecordEnvs : CallTestPassphrase(p, env)
    \/ CallLock
    \/ \E iv \in IVs : CallEncrypt(<<"a">>, iv)
    \/ \E blob \in BlobInputs : CallDecrypt(blob)

SpecRecords == Init /\ [][NextRecords]_vars

CipherEnvs == {EnvArgon2, EnvNoArgon2, EnvUnsupported, EnvNoCrypto}

\* The passphrase cipher of crypto.ts: encryptString and decryptString.
NextCipher ==
    \/ \E p \in Passphrases, plaintext \in Plaintexts, salt \in Salts,
          iv \in IVs, env \in CipherEnvs :
           CallEncryptString(p, plaintext, salt, iv, env)
    \/ \E p \in Passphrases, blob \in BlobInputs, env \in CipherEnvs :
           CallDecryptString(p, blob, env)
    \/ Argon2ModuleLoaded

SpecCipher == Init /\ [][NextCipher]_vars

\* The Vault core driven directly, with the clock stopped.
Next ==
    \/ \E p \in Passphrases, salt \in Salts, iv \in IVs, env \in Envs :
           CallCreateNewVault(p, salt, iv, env)
    \/ \E p \in Passphrases, env \in Envs : CallUnlock(p, env)
    \/ CallLock
    \/ \E iv \in IVs : CallEncrypt(<<"a">>, iv)
    \/ \E blob \in DecryptInputs : CallDecrypt(blob)
    \/ \E p \in Passphrases, env \in Envs : CallTestPassphrase(p, env)
    \/ \E l \in ListenerIds : CallAddEventListener(l)
    \/ \E l \in ListenerIds : CallRemoveEventListener(l)
    \/ Argon2ModuleLoaded

Spec == Init /\ [][Next]_vars

\* The Vault core under one passphrase, with the clock, the auto-lock timer
\* and the listeners.
NextTimer ==
    \/ \E salt \in Salts, iv \in IVs :
           CallCreateNewVault(GoodPass, salt, iv, EnvArgon2)
    \/ \E p \in {GoodPass, ShortPass} : CallUnlock(p, EnvArgon2)
    \/ CallLock
    \/ \E iv \in IVs : CallEncrypt(<<"a">>, iv)
    \/ \E blob \in DecryptInputs : CallDecrypt(blob)
    \/ \E timeoutMs \in TimeoutChoices : CallSetAutoLockTimeout(timeoutMs)
    \/ \E p \in Passphrases : CallTestPassphrase(p, EnvArgon2)
    \/ \E l \in ListenerIds : CallAddEventListener(l)
    \/ \E l \in ListenerIds : CallRemoveEventListener(l)
    \/ AutoLockFires
    \/ Tick

SpecTimer == Init /\ [][NextTimer]_vars

\* A timer armed now with this delay comes due within the modelled time.
WithinHorizon(timeoutMs) == now + timeoutMs <= MaxTime

\* NextTimer with every timer due within the modelled time.
NextLive ==
    \/ \E salt \in Salts, iv \in IVs :
           /\ WithinHorizon(autoLockTimeoutMs)
           /\ CallCreateNewVault(GoodPass, salt, iv, EnvArgon2)
    \/ \E p \in {GoodPass, ShortPass} :
           /\ WithinHorizon(autoLockTimeoutMs)
           /\ CallUnlock(p, EnvArgon2)
    \/ CallLock
    \/ \E iv \in IVs :
           /\ WithinHorizon(autoLockTimeoutMs)
           /\ CallEncrypt(<<"a">>, iv)
    \/ \E blob \in DecryptInputs :
           /\ WithinHorizon(autoLockTimeoutMs)
           /\ CallDecrypt(blob)
    \/ \E timeoutMs \in TimeoutChoices :
           /\ WithinHorizon(timeoutMs)
           /\ CallSetAutoLockTimeout(timeoutMs)
    \/ \E l \in ListenerIds : CallAddEventListener(l)
    \/ \E l \in ListenerIds : CallRemoveEventListener(l)
    \/ AutoLockFires
    \/ Tick

\* Time passes, and the event loop runs a timer callback that is due.
SpecLive == Init /\ [][NextLive]_vars /\ WF_vars(Tick) /\ WF_vars(AutoLockFires)


\* The application: VaultManager over the database, across page loads.
NextManager ==
    \/ \E net \in ReadNets : ManagerInitialize(net)
    \/ \E net \in Nets : ManagerIsFirstTimeUser(net)
    \/ \E p \in Passphrases, salt \in Salts, iv \in IVs, net \in Nets :
           ManagerCreateVault(p, salt, iv, EnvArgon2, net)
    \/ \E p \in Passphrases, net \in ReadNets : ManagerUnlockVault(p, EnvArgon2, net)
    \/ \E p \in Passphrases, net \in ReadNets : ManagerTestPassphrase(p, EnvArgon2, net)
    \/ \E net \in ReadNets : ManagerResetVault(net)
    \/ CallLock
    \/ \E plaintext \in Plaintexts, iv \in IVs : CallEncrypt(plaintext, iv)
    \/ \E blob \in DecryptInputs : CallDecrypt(blob)
    \/ Reload

SpecManager == Init /\ [][NextManager]_vars

\* The Vault core with encrypt and decrypt calls in flight: whatever the
\* event loop runs between the two halves of a call.
NextAsync ==
    \/ \E salt \in Salts, iv \in IVs :
           CallCreateNewVault(GoodPass, salt, iv, EnvArgon2)
    \/ CallUnlock(GoodPass, EnvArgon2)
    \/ CallLock
    \/ \E iv \in IVs : StartEncrypt(<<"a">>, iv)
    \/ \E blob \in DecryptInputs : StartDecrypt(blob)
    \/ \E k \in inflight : ResumeCall(k)
    \/ AutoLockFires
    \/ Tick

SpecAsync == Init /\ [][NextAsync]_vars

\* The Vault core reporting to an audit logger that may throw.
NextLogger ==
    \/ \E mode \in Loggers : LoggerTurns(mode)
    \/ \E salt \in Salts, iv \in IVs :
           CallCreateNewVault(GoodPass, salt, iv, EnvArgon2)
    \/ \E p \in {GoodPass, OtherPass} : CallUnlock(p, EnvArgon2)
    \/ CallLock
    \/ \E iv \in IVs : CallEncrypt(<<"a">>, iv)
    \/ \E blob \in DecryptInputs : CallDecrypt(blob)

SpecLogger == Init /\ [][NextLogger]_vars

\* The Vault core with listeners that return and listeners that throw.
NextListeners ==
    \/ \E l \in ListenerIds \cup ThrowingListenerIds : CallAddEventListener(l)
    \/ \E l \in ListenerIds \cup ThrowingListenerIds : CallRemoveEventListener(l)
    \/ \E salt \in Salts, iv \in IVs :
           CallCreateNewVault(GoodPass, salt, iv, EnvArgon2)
    \/ CallUnlock(GoodPass, EnvArgon2)
    \/ CallLock
    \/ AutoLockFires
    \/ Tick

SpecListeners == Init /\ [][NextListeners]_vars

\* What the setup form may hand to createVault.
CreateInputs == Passphrases \cup {EmptyPass}

\* Setting up and opening the vault through VaultManager, across page loads.
NextSetup ==
    \/ \E net \in ReadNets : ManagerInitialize(net)
    \/ \E p \in CreateInputs, salt \in Salts, iv \in IVs, net \in Nets :
           ManagerCreateVault(p, salt, iv, EnvArgon2, net)
    \/ \E p \in Passphrases, net \in ReadNets : ManagerUnlockVault(p, EnvArgon2, net)
    \/ CallLock
    \/ Reload

SpecSetup == Init /\ [][NextSetup]_vars

\* ------------------------------------------------------------------ claims

NoEvents == [l \in AllListeners |-> <<>>]

\* The passphrase a WrappedDEK was wrapped under.
WrappedUnder(w) == base64ToBuf(w.ct).key.pass

\* C1: while the vault holds no DEK, every encrypt or decrypt call fails with
\* VAULT_LOCKED, returns nothing, notifies no listener and leaves the DEK
\* reference, the WrappedDEK, the last-activity timestamp and the auto-lock
\* timer as they were.
C1_LockedVaultRefusesCrypto ==
    [][(dek = Null /\ last'.op \in {"encrypt", "decrypt"})
         => /\ last'.err = "VAULT_LOCKED"
            /\ last'.ret = Null
            /\ inbox' = NoEvents
            /\ UNCHANGED <<dek, wrappedDEK, lastActivity, autoLockTimer>>]_vars

\* C1 witness: a decrypt was refused on a Locked vault (a WrappedDEK is
\* loaded, no DEK) that has a listener.
C1_Witness ==
    /\ last.op = "decrypt" /\ last.err = "VAULT_LOCKED"
    /\ dek = Null /\ wrappedDEK # Null /\ listeners # <<>>

\* unlock was called on a Locked vault with a passphrase other than the one
\* its WrappedDEK was wrapped under.
WrongPassphraseUnlock ==
    /\ dek = Null /\ wrappedDEK # Null
    /\ last'.op = "unlock" /\ last'.arg # WrappedUnder(wrappedDEK)

StillLocked ==
    /\ dek' = Null /\ autoLockTimer' = Null /\ lastActivity' = Null
    /\ \A l \in ListenerIds : \A i \in 1..Len(inbox'[l]) : inbox'[l][i] # "unlocked"

\* C2 as stated: unlock with a wrong passphrase on a Locked vault always
\* fails with INVALID_PASSPHRASE and leaves the vault Locked.
C2_Original ==
    [][WrongPassphraseUnlock
         => (last'.err = "INVALID_PASSPHRASE" /\ StillLocked)]_vars

\* C2 amended: unlock with a wrong passphrase on a Locked vault always fails
\* and leaves the vault Locked; the error is INVALID_PASSPHRASE, except that
\* a passphrase of valid length whose key cannot be derived (Argon2id and
\* PBKDF2 both fail) gets KEY_DERIVATION_FAILED.
C2_WrongPassphraseStaysLocked ==
    [][\A p \in Passphrases, env \in Envs :
          (WrongPassphraseUnlock /\ last'.arg = p.id /\ CallUnlock(p, env))
            => /\ StillLocked
               /\ last'.err =
                    IF p.len >= MinPassphraseLength
                       /\ ~deriveKey(p, base64ToBuf(wrappedDEK.salt),
                                     argon2Available, env).res.ok
                    THEN "KEY_DERIVATION_FAILED"
                    ELSE "INVALID_PASSPHRASE"]_vars

\* C2 witness: a passphrase of valid length, not the one the record was
\* wrapped under, was refused with INVALID_PASSPHRASE; a listener is
\* registered and the vault is Locked.
C2_Witness ==
    /\ last.op = "unlock" /\ last.err = "INVALID_PASSPHRASE"
    /\ wrappedDEK # Null /\ dek = Null /\ listeners # <<>>
    /\ last.arg = OtherPass.id /\ WrappedUnder(wrappedDEK) = GoodPass.id

\* C3: DEK stability. Whenever the vault is Unlocked on the WrappedDEK it
\* held when a blob was sealed (after any lock, auto-lock, unlock and reload
\* of that record), decrypt returns exactly the plaintext that was sealed.
C3_SealedBlobsDecryptToPlaintext ==
    \A b \in blobs :
        (dek # Null /\ wrappedDEK = b.record)
            => LET r == decrypt(Core, b.blob, argon2Available, now)
               IN  r.err = NoError /\ r.ret = Text(b.plaintext)

\* The same with the plaintext compared after the UTF-8 round trip: the part
\* of C3 that is about the key.
DekStableUpToEncoding ==
    \A b \in blobs :
        (dek # Null /\ wrappedDEK = b.record)
            => LET r == decrypt(Core, b.blob, argon2Available, now)
               IN  r.err = NoError /\ r.ret = Text(utf8Decode(utf8Encode(b.plaintext)))

\* C4: a record wrapped with kdf = 'pbkdf2' is unlocked, and accepted by
\* testPassphrase, with the passphrase it was wrapped under whenever PBKDF2
\* works, whatever the availability of Argon2id at that moment.
C4_Pbkdf2RecordUnlocksWithItsPassphrase ==
    [][\A p \in Passphrases, env \in Envs :
          ( /\ wrappedDEK # Null
            /\ wrappedDEK.kdf = "pbkdf2"
            /\ p.id = WrappedUnder(wrappedDEK)
            /\ env.pbkdf2Ok )
            => /\ (last'.op = "unlock" /\ CallUnlock(p, env))
                    => (last'.err = NoError /\ dek' # Null)
               /\ (last'.op = "testPassphrase" /\ CallTestPassphrase(p, env))
                    => last'.ret = Bool(TRUE)]_vars

\* The step is one of the operations that restart the auto-lock delay: a
\* successful unlock or createNewVault, or an encrypt, decrypt or
\* setAutoLockTimeout on an Unlocked vault.
Activity ==
    /\ last'.op \in {"unlock", "createNewVault", "encrypt", "decrypt",
                     "setAutoLockTimeout"}
    /\ dek' # Null
    /\ last'.op \in {"unlock", "createNewVault"} => last'.err = NoError

\* C5: with a timeout T > 0 an Unlocked vault always has its timer armed;
\* every activity (so every encrypt or decrypt while Unlocked) moves the
\* deadline to the time of that call + T and nothing else moves it; the
\* timer locks the vault only at or after the deadline; and an Unlocked vault
\* with T > 0 eventually becomes Locked (or has its auto-lock switched off).
C5_AutoLockAfterTimeout ==
    /\ []((dek # Null /\ autoLockTimeoutMs > 0) => autoLockTimer # Null)
    /\ [][ /\ (Activity /\ autoLockTimeoutMs' > 0)
                => autoLockTimer' = [at |-> now + autoLockTimeoutMs']
           /\ (~Activity /\ dek' # Null) => autoLockTimer' = autoLockTimer
           /\ (dek # Null /\ last'.op = "autoLockTimer")
                => (dek' = Null /\ autoLockTimer # Null /\ now >= autoLockTimer.at)
         ]_vars
    /\ (dek # Null /\ autoLockTimeoutMs > 0)
         ~> (dek = Null \/ autoLockTimeoutMs <= 0)

\* C5 witness: the timer has locked a vault that had sealed a blob, a full
\* default timeout or more after the vault was created.
C5_Witness ==
    /\ last.op = "autoLockTimer" /\ dek = Null /\ wrappedDEK # Null
    /\ autoLockTimer = Null /\ lastActivity = Null
    /\ blobs # {} /\ now >= DefaultTimeout

\* C6: every state transition delivers exactly one event to a listener
\* registered once: 'unlocked' for a successful unlock or createNewVault,
\* 'locked' for a manual lock of an Unlocked vault, and for a lock by the
\* timer exactly one 'auto-locked' and no 'locked'.
C6_OneEventPerTransition ==
    [][\A l \in ListenerIds :
          (Len(SelectSeq(listeners, LAMBDA x : x = l)) = 1)
            => /\ (last'.op \in {"unlock", "createNewVault"} /\ last'.err = NoError)
                    => inbox'[l] = <<"unlocked">>
               /\ (last'.op = "lock" /\ dek # Null) => inbox'[l] = <<"locked">>
               /\ (last'.op = "autoLockTimer" /\ dek # Null)
                    => inbox'[l] = <<"auto-locked">>]_vars

\* C7: after unlock or createVault has raised an error no DEK is resident.
C7_ErrorsLeaveVaultLocked ==
    (last.op \in {"unlock", "createNewVault"} /\ last.err # NoError)
        => dek = Null

\* C8: isFirstTimeUser answers true only when storage holds no WrappedDEK
\* record for the identity.
C8_FirstTimeOnlyWithoutRecord ==
    (last.op = "isFirstTimeUser" /\ last.err = NoError /\ last.ret = Bool(TRUE))
        => storage = Null

\* C9: createVault on a vault that already has a WrappedDEK, in the core's
\* memory or in storage, replaces neither.
C9_CreateVaultKeepsExistingRecord ==
    [][last'.op = "createVault"
         => /\ wrappedDEK # Null => wrappedDEK' = wrappedDEK
            /\ storage # Null => storage' = storage]_vars

\* C10: a successful resetVault leaves the vault Locked and storage without
\* a record, and afterwards the record it deleted neither unlocks the vault
\* nor is accepted by testPassphrase.
C10_ResetIsIrreversible ==
    /\ (last.op = "resetVault" /\ last.err = NoError)
         => (dek = Null /\ storage = Null)
    /\ dek # Null => wrappedDEK \notin erased
    /\ (last.op = "managerTestPassphrase" /\ last.ret = Bool(TRUE))
         => wrappedDEK \notin erased

\* How many times listener l is registered.
Registrations(l) == Len(SelectSeq(listeners, LAMBDA x : x = l))

Repeat(event, n) == [i \in 1..n |-> event]

\* C11: lock() on an Unlocked vault leaves the DEK reference null, the timer
\* cancelled and the last-activity timestamp cleared, and delivers 'locked'
\* exactly once per registration; no timer outlives the DEK, so the timer
\* callback (and its 'auto-locked' event) never runs on a Locked vault.
C11_LockDropsKeyAndTimer ==
    /\ [](dek = Null => autoLockTimer = Null)
    /\ [][ /\ (last'.op = "lock" /\ dek # Null)
                => /\ last'.err = NoError
                   /\ dek' = Null /\ autoLockTimer' = Null /\ lastActivity' = Null
                   /\ \A l \in ListenerIds :
                         inbox'[l] = Repeat("locked", Registrations(l))
           /\ (\/ last'.op = "autoLockTimer"
               \/ \E l \in ListenerIds : \E i \in 1..Len(inbox'[l]) :
                     inbox'[l][i] = "auto-locked")
                => dek # Null
         ]_vars

\* C11 witness: lock() has returned on a vault whose timer had been running
\* for some time, and the listener got its one 'locked'.
C11_Witness ==
    /\ last.op = "lock" /\ dek = Null /\ autoLockTimer = Null
    /\ lastActivity = Null /\ now > 0 /\ wrappedDEK # Null
    /\ \E l \in ListenerIds : inbox[l] = <<"locked">>

\* C12: lock() on a vault without a DEK (Locked or Uninitialized) raises no
\* error, notifies nobody and leaves the WrappedDEK, the configured timeout,
\* the timer and the listener list as they were.
C12_LockWhenLockedIsNoOp ==
    [][(last'.op = "lock" /\ dek = Null)
         => /\ last'.err = NoError
            /\ inbox' = NoEvents
            /\ UNCHANGED <<dek, wrappedDEK, autoLockTimeoutMs, autoLockTimer,
                           lastActivity, listeners>>]_vars

\* C12 witness: lock() has returned on a Locked vault with a listener
\* registered, and nothing was delivered.
C12_Witness ==
    /\ last.op = "lock" /\ dek = Null /\ wrappedDEK # Null
    /\ listeners # <<>> /\ inbox = NoEvents

\* C13: testPassphrase changes nothing in the Vault core, whatever it
\* returns: the DEK reference, the WrappedDEK, the last-activity timestamp,
\* the timer (so the deadline), the timeout and the listeners stay as they
\* were and no listener is notified.
C13_TestPassphraseHasNoEffect ==
    [][last'.op = "testPassphrase"
         => /\ UNCHANGED <<dek, wrappedDEK, autoLockTimeoutMs, autoLockTimer,
                           lastActivity, listeners>>
            /\ inbox' = NoEvents
            /\ last'.err = NoError]_vars

\* C13 witness: testPassphrase has accepted the passphrase of a Locked vault
\* that has a listener, some time after the vault was created, and the vault
\* is still Locked.
C13_Witness ==
    /\ last.op = "testPassphrase" /\ last.ret = Bool(TRUE)
    /\ dek = Null /\ wrappedDEK # Null /\ autoLockTimer = Null
    /\ listeners # <<>> /\ now > 0

\* C14: testPassphrase(p) returns true exactly when unlock(p) on the same
\* record from the Locked state would succeed, and false otherwise.
C14_TestPassphraseAgreesWithUnlock ==
    [][\A p \in Passphrases, env \in RecordEnvs :
          (last'.op = "testPassphrase" /\ last'.arg = p.id
             /\ CallTestPassphrase(p, env))
            => last'.ret = Bool(unlock([Core EXCEPT !.dek = Null], p,
                                       argon2Available, env, now).err = NoError)
      ]_vars

\* C15: a record from createNewVault with its salt, iv or ct changed is not
\* unlocked by any passphrase, and a blob from encrypt with its salt, iv or
\* ct changed is not decrypted.
C15_TamperedInputFails ==
    /\ wrappedDEK \in Tampered(StoredRecord)
         => \A p \in Passphrases, env \in RecordEnvs :
               unlock(Core, p, argon2Available, env, now).err # NoError
    /\ dek # Null
         => \A b \in blobs : \A t \in Tampered(b.blob) :
               decrypt(Core, t, argon2Available, now).err # NoError

\* C16: the vault's decrypt refuses a blob whose v is not 1 with
\* UNSUPPORTED_VERSION and returns no plaintext.
C16_OtherVersionRefused ==
    dek # Null
        => \A b \in blobs :
              LET r == decrypt(Core, OtherVersion(b.blob), argon2Available, now)
              IN  r.err = "UNSUPPORTED_VERSION" /\ r.ret = Null

\* C17: with a record loaded and a key derived, every failure of unlock is
\* reported as INVALID_PASSPHRASE.
C17_UnlockFailsWithOneErrorKind ==
    [][(last'.op = "unlock" /\ wrappedDEK # Null
          /\ last'.err \notin {NoError, "KEY_DERIVATION_FAILED"})
         => last'.err = "INVALID_PASSPHRASE"]_vars

\* Argon2id yields no key in this environment.
Argon2Fails(env) == ~(argon2Available \/ env.importOk) \/ env.hash # "ok"

\* C20: when Argon2id and PBKDF2 both fail, deriveKey returns no key but
\* KEY_DERIVATION_FAILED with the error PBKDF2 met as its cause, and unlock
\* and createNewVault with a passphrase of valid length fail with that kind,
\* notify nobody and leave the vault as it was.
C20_DerivationFailurePropagates ==
    [][\A p \in Passphrases, env \in Envs :
          (p.len >= MinPassphraseLength /\ Argon2Fails(env) /\ ~env.pbkdf2Ok)
            => /\ (last'.op = "unlock" /\ last'.arg = p.id /\ wrappedDEK # Null
                     /\ CallUnlock(p, env))
                    => /\ deriveKey(p, base64ToBuf(wrappedDEK.salt),
                                    argon2Available, env).res
                            = ErrCause("KEY_DERIVATION_FAILED", OperationError)
                       /\ last'.err = "KEY_DERIVATION_FAILED"
                       /\ inbox' = NoEvents
                       /\ UNCHANGED <<dek, wrappedDEK, autoLockTimeoutMs,
                                      autoLockTimer, lastActivity, listeners>>
               /\ \A salt \in Salts, iv \in IVs :
                     (last'.op = "createNewVault" /\ last'.arg = p.id
                        /\ CallCreateNewVault(p, salt, iv, env))
                       => /\ deriveKey(p, salt, argon2Available, env).res
                               = ErrCause("KEY_DERIVATION_FAILED", OperationError)
                          /\ last'.err = "KEY_DERIVATION_FAILED"
                          /\ inbox' = NoEvents
                          /\ UNCHANGED <<dek, wrappedDEK, autoLockTimeoutMs,
                                         autoLockTimer, lastActivity, listeners>>
      ]_vars

\* C20 witness: unlock with the passphrase the record was wrapped under has
\* failed with KEY_DERIVATION_FAILED on a Locked vault with a listener.
C20_Witness ==
    /\ last.op = "unlock" /\ last.err = "KEY_DERIVATION_FAILED"
    /\ dek = Null /\ wrappedDEK # Null /\ listeners # <<>>
    /\ last.arg = WrappedUnder(wrappedDEK)

\* The passphrase a blob of encryptString was sealed under.
SealedUnder(blob) == base64ToBuf(blob.ct).key.pass

\* C18: decryptString reports a blob that fails authentication (wrong
\* passphrase, or salt, iv or ct changed) and a blob whose fields cannot be
\* decoded with the same error kind, DECRYPTION_FAILED.
C18_DecryptStringFailsWithOneKind ==
    \A b \in blobs, p \in Passphrases, env \in {EnvArgon2, EnvNoArgon2} :
        /\ \A t \in Tampered(b.blob) \cup Malformed(b.blob) :
              decryptString(p, t, argon2Available, env).err = "DECRYPTION_FAILED"
        /\ p.id # SealedUnder(b.blob)
              => decryptString(p, b.blob, argon2Available, env).err
                    = "DECRYPTION_FAILED"

\* C19: the kdf field of every blob names the algorithm that derived the key
\* it is sealed under.
C19_KdfTagNamesTheAlgorithm ==
    \A b \in blobs : b.blob.kdf = base64ToBuf(b.blob.ct).key.kdf

\* C21: createVault with an empty passphrase or one shorter than 8 characters
\* fails with INVALID_PASSPHRASE without generating a key, changes neither
\* the DEK reference nor the WrappedDEK nor the timer of the Vault core,
\* notifies nobody, and VaultManager.createVault leaves storage as it was.
C21_ShortPassphraseCreatesNothing ==
    [][\A p \in CreateInputs, salt \in Salts, iv \in IVs, net \in Nets :
          (p.len < MinPassphraseLength /\ last'.op = "createVault"
             /\ last'.arg = p.id /\ ManagerCreateVault(p, salt, iv, EnvArgon2, net))
            => LET loaded == initialize(World, net).c
                   r == createNewVault(loaded, p, Random(salt, iv),
                                       argon2Available, EnvArgon2, now)
               IN  /\ last'.err = "INVALID_PASSPHRASE"
                   /\ r.err = "INVALID_PASSPHRASE" /\ r.c = loaded
                   /\ nextDek' = nextDek
                   /\ wrappedDEK' = loaded.wrappedDEK
                   /\ UNCHANGED <<dek, autoLockTimer, lastActivity,
                                  autoLockTimeoutMs, listeners>>
                   /\ inbox' = NoEvents
                   /\ storage' = storage]_vars

\* C21 witness: createVault has refused the empty passphrase on a Locked
\* vault whose record is in storage.
C21_Witness ==
    /\ last.op = "createVault" /\ last.arg = EmptyPass.id
    /\ last.err = "INVALID_PASSPHRASE"
    /\ dek = Null /\ wrappedDEK # Null /\ storage # Null

\* C22: unlock on a vault with no WrappedDEK loaded fails with
\* VAULT_NOT_INITIALIZED whatever the passphrase, a too short one included,
\* notifies nobody and leaves the vault without WrappedDEK, DEK and timer.
C22_UnlockWithoutRecordRefused ==
    [][(last'.op = "unlock" /\ wrappedDEK = Null)
         => /\ last'.err = "VAULT_NOT_INITIALIZED"
            /\ inbox' = NoEvents
            /\ wrappedDEK' = Null /\ dek' = Null /\ autoLockTimer' = Null
            /\ UNCHANGED <<dek, autoLockTimer, lastActivity, autoLockTimeoutMs,
                           listeners>>]_vars

\* C22 witness: unlock with the 5-character passphrase was refused with
\* VAULT_NOT_INITIALIZED on a vault that has a listener and no record.
C22_Witness ==
    /\ last.op = "unlock" /\ last.arg = ShortPass.id
    /\ last.err = "VAULT_NOT_INITIALIZED"
    /\ wrappedDEK = Null /\ dek = Null /\ listeners # <<>>

\* C23: a call of encrypt or decrypt that has passed the lock check holds
\* the DEK that was resident at that moment, and completes with it whatever
\* ran in between, a lock(), an auto-lock or a new vault included: encrypt
\* returns the blob sealed under that key, decrypt opens the blob with that
\* key, neither fails with VAULT_LOCKED; and after every lock() or timer
\* callback the vault holds no DEK, calls in flight or not.
C23_InFlightCallsKeepTheirKey ==
    /\ [](\A k \in inflight : k.call.key # Null)
    /\ [][ /\ last'.op \in {"encryptStart", "decryptStart"}
                => \A k \in inflight' \ inflight : k.call.key = dek /\ dek # Null
           /\ \A k \in inflight :
                 (last'.op \in {"encryptResume", "decryptResume"} /\ ResumeCall(k))
                   => /\ last'.err # "VAULT_LOCKED"
                      /\ k.call.op = "encrypt"
                           => /\ last'.err = NoError
                              /\ base64ToBuf(last'.ret.ct)
                                   = aesGcmEncrypt(k.call.key, k.call.iv, k.call.data)
                      /\ k.call.op = "decrypt"
                           => LET opened == aesGcmDecrypt(k.call.key, k.call.iv,
                                                         k.call.data)
                              IN  IF opened.ok
                                  THEN /\ last'.err = NoError
                                       /\ last'.ret = Text(utf8Decode(opened.val))
                                  ELSE last'.err = OperationError
           /\ last'.op \in {"lock", "autoLockTimer"} => dek' = Null
         ]_vars

\* C23 witness: an encrypt call has returned its blob on a vault that was
\* locked while the call was in flight.
C23_Witness ==
    /\ last.op = "encryptResume" /\ last.err = NoError
    /\ dek = Null /\ wrappedDEK # Null /\ blobs # {}

\* The vault fields and the events of an outcome are those of this step.
SameOutcome(r) ==
    /\ last'.err = r.err
    /\ dek' = r.c.dek /\ wrappedDEK' = r.c.wrappedDEK
    /\ autoLockTimer' = r.c.autoLockTimer /\ lastActivity' = r.c.lastActivity
    /\ inbox' = r.c.inbox

\* C24: createNewVault, unlock, encrypt and decrypt end with the same result
\* or error kind, the same vault state and the same events whether the audit
\* logger returns or throws.
C24_OutcomeIndependentOfLogger ==
    [][LET quiet == [Core EXCEPT !.logger = "ok"]
       IN  /\ \A p \in Passphrases :
                 (last'.op = "unlock" /\ last'.arg = p.id /\ CallUnlock(p, EnvArgon2))
                   => SameOutcome(unlock(quiet, p, argon2Available, EnvArgon2, now))
           /\ \A salt \in Salts, iv \in IVs :
                 (last'.op = "createNewVault"
                    /\ CallCreateNewVault(GoodPass, salt, iv, EnvArgon2))
                   => SameOutcome(createNewVault(quiet, GoodPass, Random(salt, iv),
                                                 argon2Available, EnvArgon2, now))
           /\ \A iv \in IVs :
                 (last'.op = "encrypt" /\ CallEncrypt(<<"a">>, iv))
                   => SameOutcome(encrypt(quiet, <<"a">>, iv, argon2Available, now))
           /\ \A blob \in DecryptInputs :
                 (last'.op = "decrypt" /\ CallDecrypt(blob))
                   => SameOutcome(decrypt(quiet, blob, argon2Available, now))
      ]_vars

\* C25: with listeners that throw among the registered ones, unlock,
\* createNewVault, lock and the timer callback end as they do otherwise:
\* they raise no error, the vault takes its new state, and every registered
\* listener, those after a throwing one included, receives the event once
\* per registration.
C25_ThrowingListenerStopsNothing ==
    [][ /\ (last'.op = "createNewVault" \/ (last'.op = "unlock" /\ wrappedDEK # Null))
             => /\ last'.err = NoError
                /\ dek' # Null /\ autoLockTimer' = [at |-> now + autoLockTimeoutMs]
                /\ \A l \in AllListeners :
                      inbox'[l] = Repeat("unlocked", Registrations(l))
        /\ (last'.op = "lock" /\ dek # Null)
             => /\ last'.err = NoError
                /\ dek' = Null /\ autoLockTimer' = Null /\ lastActivity' = Null
                /\ \A l \in AllListeners :
                      inbox'[l] = Repeat("locked", Registrations(l))
        /\ (last'.op = "autoLockTimer" /\ dek # Null)
             => /\ last'.err = NoError
                /\ dek' = Null /\ autoLockTimer' = Null /\ lastActivity' = Null
                /\ \A l \in AllListeners :
                      inbox'[l] = Repeat("locked", Registrations(l))
                                    \o Repeat("auto-locked", Registrations(l))
        /\ UNCHANGED listeners
             \/ last'.op \in {"addEventListener", "removeEventListener"}
      ]_vars

\* C25 witness: lock() has returned on a vault whose first listener throws,
\* and the listener registered after it has its 'locked'.
C25_Witness ==
    /\ last.op = "lock" /\ last.err = NoError /\ dek = Null
    /\ listeners = <<"LX", "L1">>
    /\ inbox["LX"] = <<"locked">> /\ inbox["L1"] = <<"locked">>

\* C26: setAutoLockTimeout(T') stores T'; on an Unlocked vault with T' > 0
\* it replaces the pending timer by one due T' after this call, whenever the
\* last activity was; on a Locked vault it arms nothing; with T' <= 0 it
\* leaves no timer, and while the timeout is <= 0 no timer is armed and the
\* timer callback never runs.
C26_SetTimeoutRearmsFromNow ==
    /\ [](autoLockTimeoutMs <= 0 => autoLockTimer = Null)
    /\ [][ /\ \A timeoutMs \in TimeoutChoices :
                 (last'.op = "setAutoLockTimeout" /\ CallSetAutoLockTimeout(timeoutMs))
                   => /\ autoLockTimeoutMs' = timeoutMs
                      /\ last'.err = NoError /\ inbox' = NoEvents
                      /\ UNCHANGED <<dek, wrappedDEK, lastActivity, listeners>>
                      /\ (dek # Null /\ timeoutMs > 0)
                           => autoLockTimer' = [at |-> now + timeoutMs]
                      /\ (dek = Null \/ timeoutMs <= 0) => autoLockTimer' = Null
           /\ last'.op = "autoLockTimer"
                 => (autoLockTimeoutMs > 0 /\ now >= autoLockTimer.at)
         ]_vars

\* C26 witness: setAutoLockTimeout(1) has returned on an Unlocked vault whose
\* last activity lies in the past, and the timer is due one tick from now.
C26_Witness ==
    /\ last.op = "setAutoLockTimeout" /\ dek # Null
    /\ autoLockTimeoutMs = 1 /\ autoLockTimer = [at |-> now + 1]
    /\ lastActivity # Null /\ lastActivity.time < now

\* C27: unlockVault fails with the error kind the Vault core's unlock raised:
\* INVALID_PASSPHRASE for a wrong passphrase, VAULT_NOT_INITIALIZED without
\* a record.
C27_UnlockVaultKeepsErrorKind ==
    [][\A p \in Passphrases, net \in ReadNets :
          (last'.op = "unlockVault" /\ last'.arg = p.id
             /\ ManagerUnlockVault(p, EnvArgon2, net))
            => last'.err = unlock(initialize(World, net).c, p, argon2Available,
                                  EnvArgon2, now).err]_vars

\* C28: two unlock calls on the same vault whose passphrases differ and
\* which end alike (same error or success, same DEK) write the same lines to
\* the console.
C28_UnlockLogIgnoresPassphrase ==
    \A p \in Passphrases, q \in Passphrases, env \in Envs :
        LET rp == unlock(Core, p, argon2Available, env, now)
            rq == unlock(Core, q, argon2Available, env, now)
        IN  (rp.err = rq.err /\ rp.c.dek = rq.c.dek)
                => rp.c.console = rq.c.console

\* C29: decryptString with the passphrase a blob of encryptString was
\* sealed under returns, whenever it returns, exactly the plaintext that
\* was sealed.
C29_StringRoundTrip ==
    \A b \in blobs, p \in Passphrases, env \in CipherEnvs :
        LET r == decryptString(p, b.blob, argon2Available, env)
        IN  (p.id = SealedUnder(b.blob) /\ r.err = NoError)
                => r.ret = Text(b.plaintext)

\* C30: a VaultManager that has initialized is left as it is by every further
\* initialize(), whatever the database would answer; and the initialize()
\* that first completes while a vault_config row exists leaves the core
\* Locked, holding the row's WrappedDEK.
C30_InitializeLoadsTheRecordOnce ==
    [][ last'.op = "initialize"
            => /\ initialized
                   => /\ UNCHANGED <<dek, wrappedDEK, autoLockTimeoutMs,
                                     autoLockTimer, lastActivity, listeners,
                                     initialized, argon2Available, storage>>
                      /\ \A net \in Nets : initialize(World, net) = World
               /\ (~initialized /\ storage # Null)
                   => /\ initialized'
                      /\ dek' = Null
                      /\ wrappedDEK' = storage.wrapped_dek ]_vars

\* ------------------------------------------------------- random draws

\* crypto.getRandomValues as a source that never hands out the same bytes
\* twice: the values a call may draw are those no record or blob at hand
\* was made with.
IVPool == { <<"n1">>, <<"n2">>, <<"n3">> }
SaltPool == { <<"s1">>, <<"s2">>, <<"s3">> }

UsedIVs ==
    {base64ToBuf(b.blob.iv) : b \in blobs}
        \cup (IF wrappedDEK = Null THEN {} ELSE {base64ToBuf(wrappedDEK.iv)})
UsedSalts ==
    {base64ToBuf(b.blob.salt) : b \in blobs}
        \cup (IF wrappedDEK = Null THEN {} ELSE {base64ToBuf(wrappedDEK.salt)})

\* The vault and the passphrase cipher with every salt and nonce drawn
\* fresh.
NextFresh ==
    \/ \E salt \in SaltPool \ UsedSalts, iv \in IVPool \ UsedIVs :
           CallCreateNewVault(GoodPass, salt, iv, EnvArgon2)
    \/ CallUnlock(GoodPass, EnvArgon2)
    \/ CallLock
    \/ \E plaintext \in Plaintexts, iv \in IVPool \ UsedIVs :
           CallEncrypt(plaintext, iv)
    \/ \E p \in {GoodPass, OtherPass}, plaintext \in Plaintexts,
          salt \in SaltPool \ UsedSalts, iv \in IVPool \ UsedIVs,
          env \in {EnvArgon2, EnvNoArgon2} :
           CallEncryptString(p, plaintext, salt, iv, env)

SpecFresh == Init /\ [][NextFresh]_vars

\* The key, the bytes sealed and the passphrase of a returned blob.
SealKey(blob) == base64ToBuf(blob.ct).key
SealData(blob) == base64ToBuf(blob.ct).data

\* C31: a blob returned by encrypt differs in iv and in ct from every blob
\* encrypt returned earlier for the same plaintext under the same DEK, and a
\* blob returned by encryptString differs in salt, iv and ct from every blob
\* encryptString returned earlier for the same passphrase and plaintext.
C31_EveryEncryptionDrawsFreshIV ==
    [][ /\ (last'.op = "encrypt" /\ last'.err = NoError)
            => \A b \in blobs :
                   (/\ b.record # Null
                    /\ SealKey(b.blob) = SealKey(last'.ret)
                    /\ SealData(b.blob) = SealData(last'.ret))
                       => /\ b.blob.iv # last'.ret.iv
                          /\ b.blob.ct # last'.ret.ct
        /\ (last'.op = "encryptString" /\ last'.err = NoError)
            => \A b \in blobs :
                   (/\ b.record = Null
                    /\ SealKey(b.blob).pass = last'.arg
                    /\ SealData(b.blob) = SealData(last'.ret))
                       => /\ b.blob.salt # last'.ret.salt
                          /\ b.blob.iv # last'.ret.iv
                          /\ b.blob.ct # last'.ret.ct ]_vars

\* C31 witness: encrypt has returned a second blob for a plaintext it had
\* sealed before under the same DEK.
C31_Witness ==
    /\ last.op = "encrypt" /\ last.err = NoError
    /\ \E b \in blobs :
           /\ b.record # Null
           /\ b.blob # last.ret
           /\ SealKey(b.blob) = SealKey(last.ret)
           /\ SealData(b.blob) = SealData(last.ret)

\* C32: encryptString called with the empty passphrase or with one of a few
\* characters fails: it returns no blob.
C32_EncryptStringRefusesShortPassphrase ==
    (last.op = "encryptString" /\ last.arg \in {EmptyPass.id, ShortPass.id})
        => (last.err # NoError /\ last.ret = Null)

\* ------------------------------------------------- EncryptedCredentialsApi

MaxCredentials == 2

\* The five plaintext columns of the credentials table.
SecretFields == {"password", "api_key", "secret_value", "token_value",
                 "certificate_data"}

\* A field left out of an input object.
Undefined == [undefined |-> TRUE]

\* input.secrets: no field given, the password given as the empty string,
\* a password given.
NoSecrets == [f \in SecretFields |-> Null]
EmptySecrets == [NoSecrets EXCEPT !.password = Text(<<>>)]
SomeSecrets == [NoSecrets EXCEPT !.password = Text(<<"a">>)]
SecretInputs == {NoSecrets, EmptySecrets, SomeSecrets}
SecretsKind(secrets) ==
    IF secrets = Undefined THEN "undefined"
    ELSE IF secrets = NoSecrets THEN "none"
    ELSE IF secrets = EmptySecrets THEN "empty" ELSE "some"

Titles == {Text(<<"a">>)}

\* Object.values(input.secrets).some(v => v !== null && v !== undefined
\* && v !== '')
hasSecrets(secrets) ==
    \E f \in SecretFields : secrets[f] # Null /\ secrets[f] # Text(<<>>)

\* JSON.stringify(input.secrets), as the characters of the values it holds.
SecretChars(v) == IF v = Null THEN <<>> ELSE v.text
stringify(secrets) ==
    SecretChars(secrets.password) \o SecretChars(secrets.api_key)
        \o SecretChars(secrets.secret_value) \o SecretChars(secrets.token_value)
        \o SecretChars(secrets.certificate_data)

\* { ...a, ...b }
Spread(a, b) ==
    [x \in DOMAIN a \cup DOMAIN b |-> IF x \in DOMAIN b THEN b[x] ELSE a[x]]

\* The plaintext columns set to null.
ClearedSecrets == [f \in SecretFields |-> Null]

\* A row written by a version that stored the password as it was.
LegacyRow ==
    Spread([id |-> 0, title |-> Text(<<"a">>), secret_blob |-> Null,
            encrypted_at |-> Null],
           [ClearedSecrets EXCEPT !.password = Text(<<"a">>)])

\* What a call of the API leaves: the vault, the table, the error thrown
\* and the object handed to insert or update when the write took place.
Written(c, table, err, wrote) ==
    [c |-> c, table |-> table, err |-> err, wrote |-> wrote]

\* createEncryptedCredential that stores the secrets as they are while the
\* vault is locked.
createEncryptedCredentialStoresPlaintext(c, table, input, iv, avail, netOk, t) ==
    LET data == Spread([title |-> input.title, secret_blob |-> Null,
                        encrypted_at |-> Null], input.secrets)
    IN  Written(c, table \cup {Spread([id |-> Cardinality(table) + 1], data)},
                NoError, data)

\* netOk: the insert reaches the database. Of the metadata only the title
\* is kept.
createEncryptedCredential(c, table, input, iv, avail, netOk, t) ==
    LET baseData == [title |-> input.title]
        inserted(cc, data) ==
            IF netOk
            THEN Written(cc, table \cup {Spread([id |-> Cardinality(table) + 1],
                                                data)},
                         NoError, data)
            ELSE Written(cc, table, "Failed to create credential", Null)
    IN  IF hasSecrets(input.secrets) /\ isUnlocked(c)
        THEN LET r == encrypt(c, stringify(input.secrets), iv, avail, t)
             IN  IF r.err # NoError
                 THEN Written(r.c, table, "ENCRYPTION_FAILED", Null)
                 ELSE inserted(r.c,
                               Spread(Spread(baseData,
                                             [secret_blob |-> r.ret,
                                              encrypted_at |-> [time |-> t]]),
                                      ClearedSecrets))
        ELSE IF hasSecrets(input.secrets) /\ ~isUnlocked(c)
        THEN Written(c, table, "VAULT_LOCKED", Null)
        ELSE inserted(c, Spread(Spread(baseData, ClearedSecrets),
                                [secret_blob |-> Null, encrypted_at |-> Null]))

\* net[1]: the read of the existing row gets through; net[2]: the update.
updateEncryptedCredential(c, table, id, input, iv, avail, net, t) ==
    LET updated(cc, updateData) ==
            IF net[2]
            THEN Written(cc,
                         {IF row.id = id THEN Spread(row, updateData) ELSE row :
                              row \in table},
                         NoError, updateData)
            ELSE Written(cc, table, "Failed to update credential", Null)
        titleData == IF input.title # Undefined THEN [title |-> input.title]
                     ELSE [x \in {} |-> Null]
    IN  IF ~net[1]
        THEN Written(c, table, "Failed to fetch credential", Null)
        ELSE IF ~\E row \in table : row.id = id
        THEN Written(c, table, "Credential not found", Null)
        ELSE IF input.secrets = Undefined
        THEN updated(c, titleData)
        ELSE IF hasSecrets(input.secrets) /\ isUnlocked(c)
        THEN LET r == encrypt(c, stringify(input.secrets), iv, avail, t)
             IN  IF r.err # NoError
                 THEN Written(r.c, table, "ENCRYPTION_FAILED", Null)
                 ELSE updated(r.c,
                              Spread(Spread(titleData,
                                            [secret_blob |-> r.ret,
                                             encrypted_at |-> [time |-> t]]),
                                     ClearedSecrets))
        ELSE IF hasSecrets(input.secrets) /\ ~isUnlocked(c)
        THEN Written(c, table, "VAULT_LOCKED", Null)
        ELSE updated(c, Spread(Spread(titleData, ClearedSecrets),
                               [secret_blob |-> Null, encrypted_at |-> Null]))

\* The table holds a row of the time before encryption.
LegacyRowPresent ==
    /\ credentials = {}
    /\ credentials' = {LegacyRow}
    /\ inbox' = [l \in AllListeners |-> <<>>]
    /\ console' = <<>>
    /\ last' = Call("legacyRow", "", NoError, Null)
    /\ UNCHANGED <<dek, wrappedDEK, autoLockTimeoutMs, autoLockTimer, timers,
                   lastActivity, listeners, initialized, argon2Available,
                   storage, now, nextDek, blobs, erased, logger, inflight>>

CallCreateEncryptedCredential(secrets, iv, netOk) ==
    /\ Cardinality(credentials) < MaxCredentials
    /\ LET r == createEncryptedCredential(Core, credentials,
                    [title |-> Text(<<"a">>), secrets |-> secrets], iv,
                    argon2Available, netOk, now)
       IN  /\ SetCore(r.c)
           /\ credentials' = r.table
           /\ last' = Call("createEncryptedCredential", SecretsKind(secrets),
                           r.err, [id |-> 0, wrote |-> r.wrote])
    /\ UNCHANGED <<initialized, argon2Available, storage, now, nextDek, blobs,
                   erased, inflight>>

CallUpdateEncryptedCredential(id, title, secrets, iv, net) ==
    /\ LET r == updateEncryptedCredential(Core, credentials, id,
                    [title |-> title, secrets |-> secrets], iv,
                    argon2Available, net, now)
       IN  /\ SetCore(r.c)
           /\ credentials' = r.table
           /\ last' = Call("updateEncryptedCredential", SecretsKind(secrets),
                           r.err, [id |-> id, wrote |-> r.wrote])
    /\ UNCHANGED <<initialized, argon2Available, storage, now, nextDek, blobs,
                   erased, inflight>>

\* The ids update is called with: the legacy row, an inserted row, no row.
CredentialIds == {0, 1, 9}

\* The credentials API over the vault.
NextCredentials ==
    \/ \E salt \in Salts, iv \in IVs :
           CallCreateNewVault(GoodPass, salt, iv, EnvArgon2)
    \/ CallUnlock(GoodPass, EnvArgon2)
    \/ CallLock
    \/ LegacyRowPresent
    \/ \E secrets \in SecretInputs, iv \in IVs, netOk \in BOOLEAN :
           CallCreateEncryptedCredential(secrets, iv, netOk)
    \/ \E id \in CredentialIds, title \in Titles \cup {Undefined},
          secrets \in SecretInputs \cup {Undefined}, iv \in IVs,
          net \in [1..2 -> BOOLEAN] :
           CallUpdateEncryptedCredential(id, title, secrets, iv, net)

SpecCredentials == Init /\ [][NextCredentials]_vars

CredentialCall ==
    last'.op \in {"createEncryptedCredential", "updateEncryptedCredential"}

\* What was written holds no plaintext secret, and secrets handed over
\* while the vault is Unlocked are in the written secret_blob, sealed under
\* the DEK.
SecretsOnlyInBlob ==
    /\ last'.ret.wrote # Null
        => \A f \in SecretFields \cap DOMAIN last'.ret.wrote :
               last'.ret.wrote[f] = Null
    /\ (last'.arg = "some" /\ dek # Null /\ last'.err = NoError)
        => /\ last'.ret.wrote # Null
           /\ "secret_blob" \in DOMAIN last'.ret.wrote
           /\ SealKey(last'.ret.wrote.secret_blob) = dek
           /\ SealData(last'.ret.wrote.secret_blob)
                  = utf8Encode(stringify(SomeSecrets))

\* C33 as stated: no write holds a plaintext secret, secrets handed over
\* while Unlocked go into secret_blob only, and with secrets handed over
\* while Locked the call fails with VAULT_LOCKED and the table is unchanged.
C33_Original ==
    [][ CredentialCall
          => /\ SecretsOnlyInBlob
             /\ (last'.arg = "some" /\ dek = Null)
                 => /\ last'.err = "VAULT_LOCKED"
                    /\ credentials' = credentials ]_vars

\* C33 amended: as stated, except that updateEncryptedCredential reads the
\* row first: with secrets handed over while Locked it fails with
\* VAULT_LOCKED when that read finds the row, and otherwise with the error
\* of the read; the table is unchanged in each case.
C33_SecretsNeverStoredPlain ==
    [][ CredentialCall
          => /\ SecretsOnlyInBlob
             /\ (last'.arg = "some" /\ dek = Null)
                 => /\ credentials' = credentials
                    /\ last'.ret.wrote = Null
                    /\ IF last'.op = "createEncryptedCredential"
                       THEN last'.err = "VAULT_LOCKED"
                       ELSE last'.err \in {"VAULT_LOCKED", "Credential not found",
                                           "Failed to fetch credential"}
                    /\ (/\ last'.op = "updateEncryptedCredential"
                        /\ last'.err # "Failed to fetch credential"
                        /\ \E row \in credentials : row.id = last'.ret.id)
                           => last'.err = "VAULT_LOCKED" ]_vars

\* C33 witness: a credential with a password was created while the vault was
\* Unlocked, and its row holds the blob and no plaintext.
C33_Witness ==
    /\ last.op = "createEncryptedCredential" /\ last.arg = "some"
    /\ last.err = NoError /\ dek # Null
    /\ \E row \in credentials :
           /\ row.secret_blob = last.ret.wrote.secret_blob
           /\ \A f \in SecretFields : row[f] = Null

\* ------------------------------------------------- listeners that unregister

\* The Vault core with a plain listener and one that removes itself while
\* it is being notified.
NextReentrant ==
    \/ \E l \in ListenerIds \cup SelfRemovingListenerIds : CallAddEventListener(l)
    \/ \E l \in ListenerIds \cup SelfRemovingListenerIds : CallRemoveEventListener(l)
    \/ \E salt \in Salts, iv \in IVs :
           CallCreateNewVault(GoodPass, salt, iv, EnvArgon2)
    \/ CallUnlock(GoodPass, EnvArgon2)
    \/ CallLock
    \/ AutoLockFires
    \/ Tick

SpecReentrant == Init /\ [][NextReentrant]_vars

Registered(ls, l) == \E i \in 1..Len(ls) : ls[i] = l

\* C34: when createNewVault, unlock or lock notifies, every listener that
\* was registered before the call and is still registered after it has
\* received the event once.
C34_ListenersSurviveReentrantChanges ==
    [][ (/\ last'.op \in {"createNewVault", "unlock", "lock"}
         /\ \E l \in AllListeners : inbox'[l] # <<>>)
          => \A l \in AllListeners :
                 (Registered(listeners, l) /\ Registered(listeners', l))
                     => Len(inbox'[l]) = 1 ]_vars

\* --------------------------------------------- unlock and create in flight

\* unlock up to its first await: the console lines, the three checks, the
\* salt decoded. Returns the call now waiting for deriveKey.
unlockStart(c, masterPassphrase, avail, t) ==
    LET c0 == unlockPreamble(c, masterPassphrase) IN
    IF c.wrappedDEK = Null
    THEN unlockFailed(consoleLog(c0, [msg |-> "No wrapped DEK found"]),
                      avail, "VAULT_NOT_INITIALIZED")
    ELSE IF masterPassphrase.len < MinPassphraseLength
    THEN unlockFailed(consoleLog(c0, [msg |-> "Passphrase too short:",
                                      length |-> masterPassphrase.len]),
                      avail, "INVALID_PASSPHRASE")
    ELSE IF ~isBase64(c.wrappedDEK.salt)
    THEN unlockFailed(consoleLog(c0, [msg |-> "Decoding base64 data..."]),
                      avail, "InvalidCharacterError")
    ELSE Outcome(consoleLog(consoleLog(c0, [msg |-> "Decoding base64 data..."]),
                            [msg |-> "Deriving key from passphrase..."]),
                 avail, NoError,
                 [op |-> "unlock", passphrase |-> masterPassphrase,
                  salt |-> base64ToBuf(c.wrappedDEK.salt)])

\* unlock from the moment deriveKey answers: iv and ct are read from
\* this.wrappedDEK as it is then, and nothing looks at whether lock() ran
\* in between.
unlockResume(c, call, avail, env, t) ==
    LET d == deriveKey(call.passphrase, call.salt, avail, env)
    IN  IF ~d.res.ok
        THEN unlockFailed(c, d.avail, d.res.err)
        ELSE IF ~isBase64(c.wrappedDEK.iv) \/ ~isBase64(c.wrappedDEK.ct)
        THEN unlockFailed(consoleLog(c, [msg |-> "Key derivation successful"]),
                          d.avail, "InvalidCharacterError")
        ELSE LET iv == base64ToBuf(c.wrappedDEK.iv)
                 wrappedDekBytes == base64ToBuf(c.wrappedDEK.ct)
                 dekBytes == aesGcmDecrypt(d.res.val.key, iv, wrappedDekBytes)
                 c2 == consoleLog(consoleLog(c,
                           [msg |-> "Key derivation successful"]),
                           [msg |-> "Attempting AES decryption..."])
                 wrongPassphrase(cc) ==
                     unlockFailed(consoleLog(cc, [msg |-> "AES decryption failed:"]),
                                  d.avail, "INVALID_PASSPHRASE")
             IN  IF ~dekBytes.ok \/ ~importable(dekBytes.val)
                 THEN wrongPassphrase(c2)
                 ELSE LET c3 == [c2 EXCEPT !.dek = dekBytes.val,
                                           !.lastActivity = [time |-> t]]
                          c4 == consoleLog(resetAutoLockTimer(c3, t),
                                           [msg |-> "DEK imported successfully"])
                      IN  IF logEventThrows(c4)
                          THEN wrongPassphrase(logEvent(c4))
                          ELSE Outcome(
                                 consoleLog(notifyListeners(c4, "unlocked"),
                                            [msg |-> "Vault unlocked successfully!"]),
                                 d.avail, NoError, Null)

\* unlock is called and runs up to its first await.
StartUnlock(p) ==
    /\ Cardinality(inflight) < MaxInflight
    /\ LET r == unlockStart(Core, p, argon2Available, now)
       IN  /\ SetCore(r.c)
           /\ last' = Call("unlockStart", p.id, r.err, Null)
           /\ inflight' = IF r.err = NoError
                          THEN inflight \cup {[call |-> r.ret, plaintext |-> <<>>,
                                               record |-> wrappedDEK]}
                          ELSE inflight
    /\ UNCHANGED <<credentials, initialized, argon2Available, storage, now,
                   nextDek, blobs, erased>>

\* deriveKey answers the unlock call k and the call runs to its end.
ResumeUnlock(k, env) ==
    /\ k \in inflight
    /\ k.call.op = "unlock"
    /\ inflight' = inflight \ {k}
    /\ LET r == unlockResume(Core, k.call, argon2Available, env, now)
       IN  /\ SetCore(r.c)
           /\ argon2Available' = r.avail
           /\ last' = Call("unlockResume", k.call.passphrase.id, r.err, Null)
    /\ UNCHANGED <<credentials, initialized, storage, now, nextDek, blobs, erased>>

\* createNewVault is called: it fails the length check at once or waits for
\* crypto.subtle.generateKey. It reads and assigns no field before its
\* awaits are over.
StartCreateNewVault(p) ==
    /\ Cardinality(inflight) < MaxInflight
    /\ IF generatesKey(p)
       THEN /\ inflight' = inflight \cup
                   {[call |-> [op |-> "createNewVault", passphrase |-> p],
                     plaintext |-> <<>>, record |-> wrappedDEK]}
            /\ inbox' = [l \in AllListeners |-> <<>>]
            /\ console' = <<>>
            /\ last' = Call("createNewVaultStart", p.id, NoError, Null)
            /\ UNCHANGED <<dek, wrappedDEK, autoLockTimeoutMs, autoLockTimer, timers,
                           lastActivity, listeners, logger>>
       ELSE /\ LET r == createNewVault(Core, p, Random(<<>>, <<>>),
                                       argon2Available, EnvArgon2, now)
               IN  /\ SetCore(r.c)
                   /\ last' = Call("createNewVaultStart", p.id, r.err, Null)
            /\ UNCHANGED inflight
    /\ UNCHANGED <<credentials, initialized, argon2Available, storage, now,
                   nextDek, blobs, erased>>

\* The awaits of the createNewVault call k are over: it installs the record
\* and the DEK.
ResumeCreateNewVault(k, salt, iv, env) ==
    /\ k \in inflight
    /\ k.call.op = "createNewVault"
    /\ nextDek < MaxDek
    /\ inflight' = inflight \ {k}
    /\ LET r == createNewVault(Core, k.call.passphrase, Random(salt, iv),
                               argon2Available, env, now)
       IN  /\ SetCore(r.c)
           /\ argon2Available' = r.avail
           /\ nextDek' = nextDek + 1
           /\ last' = Call("createNewVaultResume", k.call.passphrase.id,
                           r.err, Null)
    /\ UNCHANGED <<credentials, initialized, storage, now, blobs, erased>>

\* unlock and createNewVault split at their awaits, with lock() and the
\* timer running in between.
NextRace ==
    \/ \E p \in Passphrases : StartCreateNewVault(p)
    \/ \E k \in inflight, salt \in Salts, iv \in IVs :
           ResumeCreateNewVault(k, salt, iv, EnvArgon2)
    \/ \E p \in Passphrases : StartUnlock(p)
    \/ \E k \in inflight : ResumeUnlock(k, EnvArgon2)
    \/ CallLock
    \/ AutoLockFires
    \/ Tick

SpecRace == Init /\ [][NextRace]_vars

\* C35: an unlock or createNewVault call that resumes right after lock() or
\* the timer's lock returned, and so was in flight during it, leaves the
\* vault Locked.
C35_LockOutlastsCallsInFlight ==
    [][ (/\ last.op \in {"lock", "autoLockTimer"}
         /\ last'.op \in {"unlockResume", "createNewVaultResume"})
          => dek' = Null ]_vars

\* ------------------------------------------- the record an unwrap is tried on

\* C36: whenever unlockVault or testPassphrase of VaultManager tries an
\* unwrap, which it does when the core holds a record after initialize(), that
\* record is the one the vault_config row holds at that moment.
C36_UnwrapUsesThePersistedRecord ==
    [][ (/\ last'.op \in {"unlockVault", "managerTestPassphrase"}
         /\ wrappedDEK' # Null)
          => (storage' # Null /\ storage'.wrapped_dek = wrappedDEK') ]_vars

\* --------------------------------------------- the record that wraps the DEK

\* The record w wraps the key k.
Wraps(w, k) ==
    /\ w # Null
    /\ isBase64(w.ct)
    /\ "data" \in DOMAIN base64ToBuf(w.ct)
    /\ base64ToBuf(w.ct).data = k

\* C37: when VaultManager.createVault has returned or thrown and the vault is
\* Unlocked, the vault_config row holds the record that wraps the resident
\* DEK.
C37_CreateVaultPersistsWhatItUnlocks ==
    (last.op = "createVault" /\ dek # Null)
        => (storage # Null /\ Wraps(storage.wrapped_dek, dek))

\* C40: whenever the vault is Unlocked, the core holds a WrappedDEK and it
\* wraps the resident DEK.
C40_UnlockedCoreHoldsTheWrappingRecord ==
    dek # Null => Wraps(wrappedDEK, dek)

\* ------------------------------------------------------ the auto-lock timer

\* C38: while the vault is Unlocked with a timeout above 0,
\* getTimeUntilAutoLock() is the time left until the armed timer comes due;
\* while it is Locked or the timeout is 0 or less, it is 0.
C38_CountdownMatchesTheTimer ==
    IF dek # Null /\ autoLockTimeoutMs > 0
    THEN /\ autoLockTimer # Null
         /\ getTimeUntilAutoLock(Core, now)
              = IF autoLockTimer.at > now THEN autoLockTimer.at - now ELSE 0
    ELSE getTimeUntilAutoLock(Core, now) = 0

\* C39: in every state a timer callback is pending exactly when the vault is
\* Unlocked with a timeout above 0, never more than one is pending, and the
\* last-activity time is set exactly when the vault is Unlocked.
C39_OneTimerExactlyWhileUnlocked ==
    /\ (timers # <<>>) <=> (dek # Null /\ autoLockTimeoutMs > 0)
    /\ Len(timers) <= 1
    /\ (lastActivity # Null) <=> (dek # Null)

\* The timeout was changed on an Unlocked vault some time after the last
\* activity: the timer armed then has been replaced by one.
C39_Witness ==
    /\ last.op = "setAutoLockTimeout" /\ dek # Null
    /\ lastActivity.time < now
    /\ timers = <<now + autoLockTimeoutMs>>

====
